---- MODULE Spec2Model ----
(***************************************************************************)
(* State-machine model of the TinyHome front-end showcase components.      *)
(*                                                                         *)
(*   src/unnamed/part_002  LODOptimizedScene: wheel-driven rotation,       *)
(*                         sidebar/notification controller, camera         *)
(*                         director (zoomToSphere, resetCamera, ...)       *)
(*   src/unnamed/part_000  MenuHome, position-scroll variant               *)
(*                                                                         *)
(* Units.  Angles are integers in tenths of a degree (1.2 deg = 12), the   *)
(* model scale is an integer in thousandths (1.5 = 1500, 2.8 = 2800).      *)
(* targetRotation holds the radian value the code stores, expressed in     *)
(* the same tenth-of-a-degree unit (radians * 1800 / pi).                  *)
(***************************************************************************)
EXTENDS Integers, Sequences, FiniteSets, TLC

VARIABLES
  \* ---- camera director state of LODOptimizedScene (part_002:506-526)
  cameraTarget,      \* [pose, animating]
  focusedSphere,     \* sphere id or Null
  cameraMode,        \* "overview" | "focused" | "transitioning"
  pendingTarget,     \* sphere id or Null
  transitionPhase,   \* "zoom_out" | "zoom_in" | "none"
  selectedSphere,    \* sphere id or Null
  notificationText,  \* which text the toast shows
  showNotification,  \* toast visible
  \* ---- refs of LODStaticCameraAnimation (part_002:248-252)
  isAnimating,       \* isAnimating.current
  isLocked,          \* isLocked.current
  posLeft,           \* lerp steps until |target.position - currentPosition| < 0.05
  lookLeft,          \* lerp steps until |target.lookAt - currentLookAt| < 0.05
  \* ---- pending one-shot timers
  settleTimers,      \* 400 ms zoom-in callbacks, oldest first; each holds its closure
  dismissTimers,     \* number of pending 2000 ms setShowNotification(false) callbacks
  cameraView,        \* what the last frame applied to the three.js camera
  \* ---- rotation / stage state written by the wheel handler
  targetRotation,
  modelScale,
  rotationDegrees,   \* displayed degrees, tenths
  \* ---- sidebar / notification controller state
  sidebarOpen,
  showSphereControls,
  notificationShown, \* the session latch
  dropdownStates,    \* [MenuItems -> BOOLEAN]
  sessionTimers,     \* number of pending 3000 ms setShowNotification(false) callbacks
  \* ---- what lives inside the effects
  accumulatedDegrees,        \* local of the wheel effect, tenths of a degree
  handlerSidebarOpen,        \* sidebarOpen seen by the subscribed wheel/scroll handler
  handlerNotificationShown,  \* notificationShown seen by that handler
  keySidebarOpen,            \* sidebarOpen seen by the subscribed keydown handler
  flushUrgent,               \* a discrete event committed: effects re-run in the same task
  \* ---- position-scroll variant (MenuHome, part_000)
  scrollTop,          \* window.pageYOffset
  scrollExtent,       \* document scrollHeight - window innerHeight
  scrollProgress,
  modelRotation,      \* tenths of a degree
  scrollTimerPending, \* the 10 ms throttle timer of the current effect instance
  \* ---- history of the inputs (not program state)
  inputLog,          \* the focus()/reset() calls issued so far, in order
  completions,       \* animation completions since the last input
  settleFired,       \* settle callbacks run since the last input
  transitionFor,     \* target of the transition the last input began, or Null
  wheelEvents,       \* wheel events handled since mount
  backwardEvents,    \* those with deltaY <= 0
  scrollEvents,      \* scroll events since mount
  uiInputs,          \* close / Escape / dropdown clicks since mount
  notifTriggers,     \* times the latch-guarded session notification was shown
  lastClose,         \* how the sidebar was last closed
  \* ---- fades written by the wheel handler of part_003 and by handleScroll
  titleOpacity,      \* thousandths
  heroOpacity,       \* thousandths
  \* ---- radian-sensitivity wheel variant (MenuHome.tsx)
  accumulatedRotation,  \* local of the wheel effect, in micro-degrees
  menuTargetRotation,   \* its targetRotation state, in micro-degrees
  radianEvents,         \* wheel events handled since mount (history)
  \* ---- refs of LODTinyHouseModel (part_002:423-424), in 1e-4 degrees
  currentRotation,   \* the displayed rotation
  velocity,
  fps,               \* bucket of usePerformanceMonitor(): "low" | "mid" | "high"
  smoothFrames,      \* frames the smoother has run (history)
  absentCalls,       \* zoomToSphere calls with an id outside the registry (history)
  \* ---- the scene: registry (part_002:546-601), rendered sphere, lifetime
  spheres,           \* the registry: sequence of [id, x, y, z, visible, color, name]
  lod,               \* what LODPositioningSphere computed in its last render
  registryLog,       \* the registry operations so far (history)
  mounted,           \* the component is mounted
  lateCallbacks      \* timer callbacks that ran after the unmount (history)

camVars == <<cameraTarget, focusedSphere, cameraMode, pendingTarget,
             transitionPhase, selectedSphere, notificationText,
             showNotification, isAnimating, isLocked, posLeft, lookLeft,
             settleTimers, dismissTimers, cameraView, inputLog, completions,
             settleFired, transitionFor>>
\* the camera director's variables that the sidebar controller never writes
directorVars == <<cameraTarget, focusedSphere, cameraMode, pendingTarget,
                  transitionPhase, notificationText, isAnimating, isLocked,
                  posLeft, lookLeft, settleTimers, dismissTimers, cameraView,
                  inputLog, completions, settleFired, transitionFor>>
stageVars == <<targetRotation, modelScale>>
sideVars == <<sidebarOpen, showSphereControls, notificationShown,
              dropdownStates, sessionTimers>>
effectVars == <<accumulatedDegrees, handlerSidebarOpen,
                handlerNotificationShown, keySidebarOpen, flushUrgent>>
wheelVars == <<rotationDegrees, wheelEvents, backwardEvents>>
scrollVars == <<scrollTop, scrollExtent, scrollProgress, modelRotation, scrollTimerPending,
                scrollEvents>>
historyVars == <<uiInputs, notifTriggers, lastClose>>
fadeVars == <<titleOpacity, heroOpacity>>
radianVars == <<accumulatedRotation, menuTargetRotation, radianEvents>>
smootherVars == <<currentRotation, velocity, fps, smoothFrames>>
sceneVars == <<spheres, lod, registryLog, mounted, lateCallbacks>>
restVars == <<fadeVars, radianVars, smootherVars, absentCalls, sceneVars>>
uiVars == <<sideVars, effectVars, wheelVars, scrollVars, historyVars, restVars>>
vars == <<camVars, stageVars, uiVars>>

----------------------------------------------------------------------------
\* Bounds of the model
MaxInputs == 4        \* focus()/reset() calls per behaviour
MaxAnimFrames == 2    \* lerp steps an animation may still need
MaxWheelEvents == 56  \* wheel events per behaviour
MaxBackward == 1      \* of which backward (deltaY <= 0)
MaxScrollEvents == 4  \* scroll events per behaviour
MaxUiInputs == 3      \* close / Escape / dropdown clicks per behaviour
MaxRadianEvents == 30 \* wheel events of the radian-sensitivity variant
MaxSceneInputs == 3   \* focus()/reset() calls per behaviour, registry lookups
MaxTrackedInputs == 1 \* focus()/reset() calls per behaviour of the scene
MaxSceneWheel == 2    \* wheel events while the scene is watched
MaxSmoothFrames == 2  \* frames of the model smoother per behaviour
MaxSmootherWheel == 4 \* wheel events while the smoother is watched
MaxAbsentCalls == 1   \* zoomToSphere calls with an id outside the registry

\* Program constants
Null == 0             \* JS null for "number | null" state (falsy like 0)
NumSpheres == 16
InitialScale == 1500
MaxScale == 2800
DegreesPerScroll == 12      \* 1.2 degrees per wheel event
FullTurn == 3600            \* 360 degrees
GrowFrom == 300             \* the model starts growing at 30 degrees
OpenAt == 600               \* the sidebar opens at 60 degrees
ScaleSpan == 1300           \* 1.3, the growth between 30 and 60 degrees
MaxRotationScroll == 25     \* percent of scroll over which MenuHome rotates
QuarterTurn == 900          \* Math.PI / 2, MenuHome's full rotation
MenuOpenAt == 300           \* MenuHome opens its sidebar at 30 degrees
FullOpacity == 1000         \* opacity 1
TitleFadeEnd == 300         \* the title has faded out at 30 degrees
HeroFadeEnd == 600          \* MenuHome hides the hero at 60 degrees
HeroFadeSpan == 800         \* 0.8, the opacity lost over the hero fade
HeroFloor == 200            \* 0.2, the floor of the hero fade
NaN == -1                   \* the JS value NaN (no angle, percent or opacity is negative)
SmoothUnit == 1000          \* smoother units (1e-4 degrees) per tenth of a degree
VelocityGain == 100         \* 0.1, the share of the velocity added per frame
FocusDistance == 800        \* 0.8, distance of the camera from a focused sphere
FocusHeight == 300          \* 0.3, height of the camera above a focused sphere
OverviewHeight == 3000      \* y of the overview position
MicroDegPerStep == 286479   \* 0.005 rad (rotationSensitivity) in micro-degrees
MicroPerTenth == 100000     \* micro-degrees per tenth of a degree
MicroPerDegree == 1000000   \* micro-degrees per degree

SphereIds == 1..NumSpheres
FocusIds == {5, 7}            \* the anchors the modelled user clicks
SceneIds == {3, 4}            \* the anchors focused while the scene is watched
AbsentIds == {0, 17}          \* ids that no sphere of the registry carries
FpsBuckets == {"low", "mid", "high"}   \* fps < 30, fps < 45, otherwise

MenuItems == {"Living_Room", "Kitchen", "Bedroom", "Bathroom"}
ToggleItems == {"Living_Room", "Kitchen"}   \* the rooms the modelled user toggles
WheelDeltas == {-100, 0, 100}               \* e.deltaY of a wheel event
RadianDeltas == {-100, 4, 100}              \* e.deltaY: mouse notches, touchpad
ScrollPositions == {0, 50, 100, 500}        \* window.pageYOffset after a scroll
ScrollExtents == {0, 1000}                  \* docHeight - winHeight

Abs(n) == IF n < 0 THEN -n ELSE n
Min(a, b) == IF a < b THEN a ELSE b
Max(a, b) == IF a > b THEN a ELSE b

----------------------------------------------------------------------------
\* Camera poses.  A pose is kept symbolically: the overview pose carries the
\* z it was computed with, a sphere pose the sphere and the rotation used.

\* position [0, 3, 8 - (modelScale - 1.5) * 1.5], lookAt [0, 0, 0]
OverviewPose(scale) ==
  [kind |-> "overview", id |-> Null, rot |-> 0,
   z |-> 8000 - ((scale - InitialScale) * 3) \div 2]

\* world position of the sphere under rotation rot, offset by distance/height
SpherePose(id, rot) ==
  [kind |-> "sphere", id |-> id, rot |-> rot, z |-> 0]

\* Distances of the camera to a newly set target: any number of lerp steps.
NewDistances == (0..MaxAnimFrames) \X (0..MaxAnimFrames)

\* useEffect([focusedSphere]): if (focusedSphere === null) isLocked.current = false
LockAfterRender(newFocused) ==
  IF newFocused = Null /\ focusedSphere # Null THEN FALSE ELSE isLocked

CanInput == Len(inputLog) < MaxInputs

Dec(n) == IF n > 0 THEN n - 1 ELSE 0

FocusInput(id) == [op |-> "focus", id |-> id]
ResetInput == [op |-> "reset", id |-> Null]

\* The input is appended to the history and the per-input counters restart.
LogInput(in) ==
  /\ inputLog' = Append(inputLog, in)
  /\ completions' = 0
  /\ settleFired' = 0
  /\ transitionFor' = IF in.op = "focus" /\ cameraMode' = "transitioning"
                        THEN in.id ELSE Null

----------------------------------------------------------------------------
\* The registry and the geometry of the camera poses, in thousandths.

\* specificCoordinates of the spheres initial state; sphere id = index + 1,
\* which is the position in this sequence
specificCoordinates ==
  << [x |-> -1200, y |-> 2400, z |-> 1800],   \* Samsung TV
     [x |-> -1100, y |-> 2600, z |-> 900],    \* LED lights
     [x |-> -1300, y |-> 2200, z |-> 1700],   \* Videogame
     [x |-> -400, y |-> 100, z |-> 1500],     \* Carpet
     [x |-> -200, y |-> 400, z |-> -1700],    \* Oven
     [x |-> -600, y |-> 600, z |-> -1700],    \* Microwave
     [x |-> 500, y |-> 600, z |-> -1700],     \* Mixer
     [x |-> -100, y |-> 700, z |-> -1700],    \* Cooktop
     [x |-> 420, y |-> 2100, z |-> 1700],     \* Bed
     [x |-> -600, y |-> 2100, z |-> 1700],    \* Rug
     [x |-> 1300, y |-> 2200, z |-> 1700],    \* Desk
     [x |-> 1200, y |-> 2200, z |-> 1200],    \* Chair
     [x |-> 1500, y |-> 800, z |-> -1800],    \* Shower
     [x |-> 1700, y |-> 300, z |-> -700],     \* Toilet
     [x |-> 1400, y |-> 1300, z |-> 100],     \* LED lights (bathroom)
     [x |-> 900, y |-> 800, z |-> -600] >>    \* Towell Hanger

\* Variant of SphereAt that takes the id for the zero-based index.
SphereAtZeroBased(sphereId) == specificCoordinates[sphereId + 1]

\* spheres.find((s) => s.id === sphereId)
SphereAt(sphereId) == specificCoordinates[sphereId]

\* Math.sin for an angle of 0..180 degrees given in tenths (Bhaskara's
\* rational approximation, exact at 0, 30, 90, 150 and 180 degrees)
HalfTurnSin(t) ==
  LET p == (t * (FullTurn \div 2 - t)) \div 100
  IN (4000 * p) \div (40500 - p)

\* Math.sin and Math.cos of an angle in tenths of a degree, in thousandths
Sin(rot) ==
  LET r == rot % FullTurn
  IN IF r <= FullTurn \div 2 THEN HalfTurnSin(r)
                              ELSE -HalfTurnSin(r - FullTurn \div 2)

Cos(rot) == Sin(rot + QuarterTurn)

\* Math.sqrt, cut to an integer
RECURSIVE SqrtBetween(_, _, _)
SqrtBetween(n, lo, hi) ==
  IF lo >= hi THEN lo
  ELSE LET mid == (lo + hi + 1) \div 2
       IN IF mid * mid <= n THEN SqrtBetween(n, mid, hi)
                            ELSE SqrtBetween(n, lo, mid - 1)

Sqrt(n) == SqrtBetween(n, 0, 40000)

\* worldX, worldY, worldZ: the sphere's position turned by rot about the y axis
WorldPosition(sphereId, rot) ==
  LET sphere == SphereAt(sphereId)
  IN << (sphere.x * Cos(rot) - sphere.z * Sin(rot)) \div 1000,
        sphere.y,
        (sphere.x * Sin(rot) + sphere.z * Cos(rot)) \div 1000 >>

\* cameraX, cameraY, cameraZ: the world position moved by distance along
\* angle = atan2(worldZ, worldX) + PI / 4 and lifted by height; with
\* r = sqrt(worldX^2 + worldZ^2), cos(angle) = (worldX - worldZ) / (r sqrt 2)
\* and sin(angle) = (worldX + worldZ) / (r sqrt 2)
CameraPosition(world) ==
  LET r2 == Sqrt(2 * (world[1] * world[1] + world[3] * world[3]))
  IN IF r2 = 0
       THEN << world[1] + (FocusDistance * 707) \div 1000,
               world[2] + FocusHeight,
               world[3] + (FocusDistance * 707) \div 1000 >>
       ELSE << world[1] + (FocusDistance * (world[1] - world[3])) \div r2,
               world[2] + FocusHeight,
               world[3] + (FocusDistance * (world[1] + world[3])) \div r2 >>

\* lookAt of a camera target
PoseLookAt(pose) ==
  IF pose.kind = "overview" THEN <<0, 0, 0>>
                            ELSE WorldPosition(pose.id, pose.rot)

\* position of a camera target
PosePosition(pose) ==
  IF pose.kind = "overview" THEN <<0, OverviewHeight, pose.z>>
                            ELSE CameraPosition(WorldPosition(pose.id, pose.rot))

----------------------------------------------------------------------------
\* Camera director (part_002)

\* performZoomToSphere(sphereId)
PerformZoomToSphere(sphereId) ==
  /\ \E d \in NewDistances :
       /\ posLeft' = d[1]
       /\ lookLeft' = d[2]
  /\ cameraTarget' = [pose |-> SpherePose(sphereId, targetRotation),
                      animating |-> TRUE]
  /\ focusedSphere' = sphereId
  /\ cameraMode' = "focused"
  /\ notificationText' = [kind |-> "focused", id |-> sphereId]
  /\ showNotification' = TRUE
  /\ dismissTimers' = dismissTimers + 1
  /\ isLocked' = LockAfterRender(sphereId)
  /\ UNCHANGED <<pendingTarget, transitionPhase>>

\* Variant of BeginTransition that zooms straight to the new sphere.
BeginTransitionDirect(sphereId) ==
  PerformZoomToSphere(sphereId)

\* zoomToSphere, branch taken when another sphere is focused: zoom out first
BeginTransition(sphereId) ==
  /\ \E d \in NewDistances :
       /\ posLeft' = d[1]
       /\ lookLeft' = d[2]
  /\ cameraMode' = "transitioning"
  /\ pendingTarget' = sphereId
  /\ transitionPhase' = "zoom_out"
  /\ focusedSphere' = Null
  /\ cameraTarget' = [pose |-> OverviewPose(modelScale), animating |-> TRUE]
  /\ notificationText' = [kind |-> "transition", id |-> sphereId]
  /\ showNotification' = TRUE
  /\ dismissTimers' = dismissTimers + 1
  /\ isLocked' = LockAfterRender(Null)

\* Variant of ZoomToSphere without the registry lookup.
ZoomToSphereUnchecked(sphereId) ==
  /\ IF focusedSphere # Null /\ focusedSphere # sphereId
       THEN BeginTransition(sphereId)
       ELSE PerformZoomToSphere(sphereId)
  /\ UNCHANGED <<isAnimating, settleTimers, cameraView>>

\* zoomToSphere(sphereId)
ZoomToSphere(sphereId) ==
  /\ IF sphereId \notin SphereIds          \* if (!sphere) return
       THEN UNCHANGED <<cameraTarget, focusedSphere, cameraMode, pendingTarget,
                        transitionPhase, notificationText, showNotification,
                        dismissTimers, isLocked, posLeft, lookLeft>>
       ELSE IF focusedSphere # Null /\ focusedSphere # sphereId
              THEN BeginTransition(sphereId)
              ELSE PerformZoomToSphere(sphereId)
  /\ UNCHANGED <<isAnimating, settleTimers, cameraView>>

\* zoomToSphere called with an id that no sphere carries
FocusAbsent(sphereId) ==
  /\ absentCalls < MaxAbsentCalls
  /\ sphereId \notin SphereIds
  /\ ZoomToSphere(sphereId)
  /\ absentCalls' = absentCalls + 1
  /\ UNCHANGED <<selectedSphere, inputLog, completions, settleFired,
                 transitionFor>>
  /\ UNCHANGED <<stageVars, sideVars, effectVars, wheelVars, scrollVars,
                 historyVars, fadeVars, radianVars, smootherVars, sceneVars>>

\* onClick of a dropdown sub-item: zoomToSphere(sphereId); setSelectedSphere(sphereId)
ClickDropdownItem(sphereId) ==
  /\ CanInput
  /\ sphereId > 0
  /\ ZoomToSphere(sphereId)
  /\ selectedSphere' = sphereId
  /\ LogInput(FocusInput(sphereId))
  /\ UNCHANGED <<stageVars, uiVars>>

\* onClick of a sphere card: deselect, or select and zoomToSphere(sphere.id)
ClickSphereCard(sphereId) ==
  /\ sphereId \in SphereIds
  /\ IF selectedSphere = sphereId
       THEN /\ selectedSphere' = Null
            /\ UNCHANGED <<cameraTarget, focusedSphere, cameraMode,
                           pendingTarget, transitionPhase, notificationText,
                           showNotification, isAnimating, isLocked, posLeft,
                           lookLeft, settleTimers, dismissTimers, cameraView,
                           inputLog, completions, settleFired, transitionFor>>
       ELSE /\ CanInput
            /\ selectedSphere' = sphereId
            /\ ZoomToSphere(sphereId)
            /\ LogInput(FocusInput(sphereId))
  /\ UNCHANGED <<stageVars, uiVars>>

\* Variant of ResetCameraState that leaves focusedSphere set.
ResetCameraStateKeepsFocus ==
  /\ \E d \in NewDistances :
       /\ posLeft' = d[1]
       /\ lookLeft' = d[2]
  /\ cameraTarget' = [pose |-> OverviewPose(modelScale), animating |-> TRUE]
  /\ cameraMode' = "overview"
  /\ transitionPhase' = "none"
  /\ pendingTarget' = Null
  /\ notificationText' = [kind |-> "overview", id |-> Null]
  /\ showNotification' = TRUE
  /\ dismissTimers' = dismissTimers + 1
  /\ UNCHANGED <<focusedSphere, isLocked>>

\* Variant of ResetCameraState that leaves the transition pending.
ResetCameraStateKeepsPending ==
  /\ \E d \in NewDistances :
       /\ posLeft' = d[1]
       /\ lookLeft' = d[2]
  /\ cameraTarget' = [pose |-> OverviewPose(modelScale), animating |-> TRUE]
  /\ focusedSphere' = Null
  /\ cameraMode' = "overview"
  /\ notificationText' = [kind |-> "overview", id |-> Null]
  /\ showNotification' = TRUE
  /\ dismissTimers' = dismissTimers + 1
  /\ isLocked' = LockAfterRender(Null)
  /\ UNCHANGED <<pendingTarget, transitionPhase>>

\* resetCamera()
ResetCameraState ==
  /\ \E d \in NewDistances :
       /\ posLeft' = d[1]
       /\ lookLeft' = d[2]
  /\ cameraTarget' = [pose |-> OverviewPose(modelScale), animating |-> TRUE]
  /\ focusedSphere' = Null
  /\ cameraMode' = "overview"
  /\ transitionPhase' = "none"
  /\ pendingTarget' = Null
  /\ notificationText' = [kind |-> "overview", id |-> Null]
  /\ showNotification' = TRUE
  /\ dismissTimers' = dismissTimers + 1
  /\ isLocked' = LockAfterRender(Null)

ResetCamera ==
  /\ CanInput
  /\ ResetCameraState
  /\ LogInput(ResetInput)
  /\ UNCHANGED <<selectedSphere, isAnimating, settleTimers, cameraView>>
  /\ UNCHANGED <<stageVars, uiVars>>

\* handleAnimationComplete(): clear the animating flag; after a zoom-out of a
\* transition, schedule the zoom-in 400 ms later.  The callback closes over
\* this render's pendingTarget and targetRotation.
HandleAnimationComplete ==
  /\ cameraTarget' = [cameraTarget EXCEPT !.animating = FALSE]
  /\ settleTimers' =
       IF /\ cameraMode = "transitioning"
          /\ transitionPhase = "zoom_out"
          /\ pendingTarget # Null
         THEN Append(settleTimers,
                     [target |-> pendingTarget, rot |-> targetRotation])
         ELSE settleTimers
  /\ completions' = completions + 1

\* useFrame of LODStaticCameraAnimation, branch (animating || isAnimating):
\* one lerp step, then the completion test on both distances.
FrameAnimate ==
  /\ cameraTarget.animating \/ isAnimating
  /\ posLeft' = Dec(posLeft)
  /\ lookLeft' = Dec(lookLeft)
  /\ cameraView' = [kind |-> "lerp", id |-> Null, rot |-> 0]
  /\ IF posLeft' = 0 /\ lookLeft' = 0
       THEN /\ isAnimating' = FALSE
            /\ isLocked' = (focusedSphere # Null)
            /\ HandleAnimationComplete
       ELSE /\ isAnimating' = TRUE
            /\ UNCHANGED <<isLocked, cameraTarget, settleTimers, completions>>
  /\ UNCHANGED <<focusedSphere, cameraMode, pendingTarget, transitionPhase,
                 selectedSphere, notificationText, showNotification,
                 dismissTimers, inputLog, settleFired, transitionFor>>
  /\ UNCHANGED <<stageVars, uiVars>>

\* useFrame, static lock branch: the camera is placed on the focused sphere's
\* world position computed with targetRotation.
FrameLocked ==
  /\ ~(cameraTarget.animating \/ isAnimating)
  /\ isLocked
  /\ focusedSphere # Null
  /\ cameraMode # "transitioning"
  /\ focusedSphere \in SphereIds
  /\ cameraView' = [kind |-> "lock", id |-> focusedSphere, rot |-> targetRotation]
  /\ UNCHANGED <<cameraTarget, focusedSphere, cameraMode, pendingTarget,
                 transitionPhase, selectedSphere, notificationText,
                 showNotification, isAnimating, isLocked, posLeft, lookLeft,
                 settleTimers, dismissTimers, inputLog, completions,
                 settleFired, transitionFor>>
  /\ UNCHANGED <<stageVars, uiVars>>

\* useFrame, default overview branch: drift toward the overview pose.
FrameOverview ==
  /\ ~(cameraTarget.animating \/ isAnimating)
  /\ ~(isLocked /\ focusedSphere # Null /\ cameraMode # "transitioning")
  /\ ~isLocked
  /\ cameraView' = [kind |-> "drift", id |-> Null, rot |-> 0]
  /\ UNCHANGED <<cameraTarget, focusedSphere, cameraMode, pendingTarget,
                 transitionPhase, selectedSphere, notificationText,
                 showNotification, isAnimating, isLocked, posLeft, lookLeft,
                 settleTimers, dismissTimers, inputLog, completions,
                 settleFired, transitionFor>>
  /\ UNCHANGED <<stageVars, uiVars>>

\* The state updates of the 400 ms callback scheduled by
\* handleAnimationComplete, with the values t its closure captured.
SettleCallback(t) ==
  /\ IF t.target \in SphereIds
       THEN /\ \E d \in NewDistances :
                 /\ posLeft' = d[1]
                 /\ lookLeft' = d[2]
            /\ cameraTarget' = [pose |-> SpherePose(t.target, t.rot),
                                animating |-> TRUE]
            /\ focusedSphere' = t.target
            /\ cameraMode' = "focused"
            /\ notificationText' = [kind |-> "focused", id |-> t.target]
            /\ showNotification' = TRUE
            /\ dismissTimers' = dismissTimers + 1
            /\ isLocked' = LockAfterRender(t.target)
       ELSE UNCHANGED <<posLeft, lookLeft, cameraTarget, focusedSphere,
                        cameraMode, notificationText, showNotification,
                        dismissTimers, isLocked>>
  /\ pendingTarget' = Null
  /\ transitionPhase' = "none"

\* The oldest pending 400 ms timer fires.
SettleTimerFires ==
  /\ settleTimers # <<>>
  /\ SettleCallback(Head(settleTimers))
  /\ settleTimers' = Tail(settleTimers)
  /\ settleFired' = settleFired + 1
  /\ UNCHANGED <<selectedSphere, isAnimating, cameraView, inputLog, completions,
                 transitionFor>>
  /\ UNCHANGED <<stageVars, uiVars>>

\* A pending 2000 ms timer fires: setShowNotification(false)
DismissTimerFires ==
  /\ dismissTimers > 0
  /\ dismissTimers' = dismissTimers - 1
  /\ showNotification' = FALSE
  /\ UNCHANGED <<cameraTarget, focusedSphere, cameraMode, pendingTarget,
                 transitionPhase, selectedSphere, notificationText,
                 isAnimating, isLocked, posLeft, lookLeft, settleTimers,
                 cameraView, inputLog, completions, settleFired, transitionFor>>
  /\ UNCHANGED <<stageVars, uiVars>>

----------------------------------------------------------------------------
\* The simple camera of the second scene (part_003): AnimatedCamera and the
\* handlers zoomToSphere, resetCamera and handleAnimationComplete.  This scene
\* has no focusedSphere, cameraMode, pendingTarget or transitionPhase.

\* world position of the sphere under rotation rot, seen from distance 1.5,
\* height 0.8 and angle atan2(worldZ, worldX) + PI / 3
WidePose(id, rot) ==
  [kind |-> "wide", id |-> id, rot |-> rot, z |-> 0]

\* setCameraTarget({..., animating: true}) with the notification of the
\* handler.  The position is within reach at once only when the camera sits
\* on that very target already; currentLookAt keeps whatever it holds.
AnimatedSetTarget(pose, kind, id) ==
  /\ posLeft' \in IF pose = cameraTarget.pose /\ posLeft = 0
                   THEN 0..MaxAnimFrames
                   ELSE 1..MaxAnimFrames
  /\ lookLeft' \in 0..MaxAnimFrames
  /\ cameraTarget' = [pose |-> pose, animating |-> TRUE]
  /\ notificationText' = [kind |-> kind, id |-> id]
  /\ showNotification' = TRUE
  /\ dismissTimers' = dismissTimers + 1
  /\ UNCHANGED <<focusedSphere, cameraMode, pendingTarget, transitionPhase,
                 isAnimating, isLocked, settleTimers, cameraView>>

\* zoomToSphere(sphereId) of part_003
AnimatedZoomToSphere(sphereId) ==
  /\ sphereId \in SphereIds                 \* if (!sphere) return
  /\ AnimatedSetTarget(WidePose(sphereId, targetRotation), "zooming", sphereId)

\* resetCamera() of part_003
AnimatedResetCamera ==
  AnimatedSetTarget(OverviewPose(modelScale), "overview", Null)

\* onClick of a dropdown sub-item: zoomToSphere(sphereId); setSelectedSphere
AnimatedClickDropdownItem(sphereId) ==
  /\ CanInput
  /\ sphereId > 0
  /\ AnimatedZoomToSphere(sphereId)
  /\ selectedSphere' = sphereId
  /\ LogInput(FocusInput(sphereId))
  /\ UNCHANGED <<stageVars, uiVars>>

\* onClick of a sphere card: deselect and resetCamera(), or select and
\* zoomToSphere(sphere.id)
AnimatedClickSphereCard(sphereId) ==
  /\ CanInput
  /\ sphereId \in SphereIds
  /\ IF selectedSphere = sphereId
       THEN /\ selectedSphere' = Null
            /\ AnimatedResetCamera
            /\ LogInput(ResetInput)
       ELSE /\ selectedSphere' = sphereId
            /\ AnimatedZoomToSphere(sphereId)
            /\ LogInput(FocusInput(sphereId))
  /\ UNCHANGED <<stageVars, uiVars>>

\* onClick of the reset button: resetCamera()
AnimatedClickReset ==
  /\ CanInput
  /\ AnimatedResetCamera
  /\ LogInput(ResetInput)
  /\ UNCHANGED selectedSphere
  /\ UNCHANGED <<stageVars, uiVars>>

\* useFrame of AnimatedCamera, branch (animating || isAnimating): a starting
\* animation resets currentLookAt to [0, 0, 0] (no sphere is at the origin);
\* one lerp step; the completion test reads positionDistance only and calls
\* handleAnimationComplete, which clears cameraTarget.animating.
AnimatedFrame ==
  /\ cameraTarget.animating \/ isAnimating
  /\ \E look \in IF cameraTarget.animating /\ ~isAnimating
                    THEN IF cameraTarget.pose.kind = "overview"
                           THEN {0}
                           ELSE 1..MaxAnimFrames
                    ELSE {lookLeft} :
       lookLeft' = Dec(look)
  /\ posLeft' = Dec(posLeft)
  /\ cameraView' = [kind |-> "lerp", id |-> Null, rot |-> 0]
  /\ IF posLeft' = 0
       THEN /\ isAnimating' = FALSE
            /\ cameraTarget' = [cameraTarget EXCEPT !.animating = FALSE]
            /\ completions' = completions + 1
       ELSE /\ isAnimating' = TRUE
            /\ UNCHANGED <<cameraTarget, completions>>
  /\ UNCHANGED <<focusedSphere, cameraMode, pendingTarget, transitionPhase,
                 selectedSphere, notificationText, showNotification, isLocked,
                 settleTimers, dismissTimers, inputLog, settleFired,
                 transitionFor>>
  /\ UNCHANGED <<stageVars, uiVars>>

\* useFrame of AnimatedCamera, default branch: drift toward the overview
AnimatedFrameDrift ==
  /\ ~(cameraTarget.animating \/ isAnimating)
  /\ cameraView' = [kind |-> "drift", id |-> Null, rot |-> 0]
  /\ UNCHANGED <<cameraTarget, focusedSphere, cameraMode, pendingTarget,
                 transitionPhase, selectedSphere, notificationText,
                 showNotification, isAnimating, isLocked, posLeft, lookLeft,
                 settleTimers, dismissTimers, inputLog, completions,
                 settleFired, transitionFor>>
  /\ UNCHANGED <<stageVars, uiVars>>

----------------------------------------------------------------------------
\* Sidebar / notification controller of LODOptimizedScene (part_002)

AllCollapsed == [i \in MenuItems |-> FALSE]

NoClose == [by |-> "none", hadOpen |-> FALSE, above |-> FALSE]

\* The subscribed handlers were created by a render older than the state:
\* the effects with deps [sidebarOpen, notificationShown] / [sidebarOpen]
\* have not re-run yet.
WheelEffectStale ==
  \/ handlerSidebarOpen # sidebarOpen
  \/ handlerNotificationShown # notificationShown

EffectsStale == WheelEffectStale \/ keySidebarOpen # sidebarOpen

\* Variant of ScaleFor that never lets the model grow.
ScaleForFlat(displayDegrees) ==
  IF displayDegrees < OpenAt THEN InitialScale ELSE MaxScale

\* Variant of ScaleFor without the upper band: the interpolation runs on.
ScaleForUnclamped(displayDegrees) ==
  IF displayDegrees < GrowFrom
    THEN InitialScale
    ELSE InitialScale
           + ((displayDegrees - GrowFrom) * ScaleSpan) \div (OpenAt - GrowFrom)

\* newModelScale of handleWheel
ScaleFor(displayDegrees) ==
  IF displayDegrees < GrowFrom
    THEN InitialScale
    ELSE IF displayDegrees < OpenAt
      THEN InitialScale
             + ((displayDegrees - GrowFrom) * ScaleSpan) \div (OpenAt - GrowFrom)
      ELSE MaxScale

\* newTitleOpacity of handleWheel (part_003, MenuHome.tsx)
TitleOpacityFor(displayDegrees) ==
  IF displayDegrees < TitleFadeEnd
    THEN Max(FullOpacity - (displayDegrees * FullOpacity) \div TitleFadeEnd, 0)
    ELSE 0

\* getCurrentStage(): the stage label rendered from rotationDegrees
getCurrentStage(degrees) ==
  IF degrees < GrowFrom THEN "Stage 1: Title Visible"
  ELSE IF degrees < OpenAt THEN "Stage 2: Model Growing"
  ELSE "Stage 3: Navigation + Spheres Active"

\* if (!notificationShown) { setShowNotification(true); setTimeout(..., 3000);
\*                           setNotificationShown(true) }
ShowSessionNotification ==
  /\ showNotification' = TRUE
  /\ sessionTimers' = sessionTimers + 1
  /\ notificationShown' = TRUE
  /\ notifTriggers' = notifTriggers + 1

\* handleWheel(e), run by the subscribed closure
WheelHandler(deltaY) ==
  LET scrollDirection == IF deltaY > 0 THEN 1 ELSE -1
      acc == accumulatedDegrees + scrollDirection * DegreesPerScroll
      displayDegrees == Abs(acc) % FullTurn
  IN /\ ~flushUrgent
     /\ accumulatedDegrees' = acc
     /\ targetRotation' = acc
     /\ rotationDegrees' = displayDegrees
     /\ titleOpacity' = TitleOpacityFor(displayDegrees)
     /\ modelScale' = ScaleFor(displayDegrees)
     /\ IF displayDegrees >= OpenAt /\ ~handlerSidebarOpen
          THEN /\ sidebarOpen' = TRUE
               /\ showSphereControls' = TRUE
               /\ IF ~handlerNotificationShown
                    THEN ShowSessionNotification
                    ELSE UNCHANGED <<showNotification, sessionTimers,
                                     notificationShown, notifTriggers>>
          ELSE UNCHANGED <<sidebarOpen, showSphereControls, showNotification,
                           sessionTimers, notificationShown, notifTriggers>>
     /\ wheelEvents' = wheelEvents + 1
     /\ backwardEvents' = IF scrollDirection = -1 THEN backwardEvents + 1
                                                  ELSE backwardEvents
     /\ lastClose' = [lastClose EXCEPT !.above = @ /\ displayDegrees >= OpenAt]
     /\ UNCHANGED <<dropdownStates, handlerSidebarOpen, handlerNotificationShown,
                    keySidebarOpen, flushUrgent, selectedSphere, uiInputs>>
     /\ UNCHANGED <<heroOpacity, radianVars, smootherVars, absentCalls, sceneVars>>
     /\ UNCHANGED <<directorVars, scrollVars>>

\* a wheel event of a session with at most MaxWheelEvents events, MaxBackward
\* of them backward
HandleWheel(deltaY) ==
  /\ wheelEvents < MaxWheelEvents
  /\ deltaY <= 0 => backwardEvents < MaxBackward
  /\ WheelHandler(deltaY)

\* React re-runs the effects whose deps changed: cleanup, then the effect body
\* again, which declares a new accumulatedDegrees = 0 and subscribes handlers
\* that see the current state.
FlushEffects ==
  /\ EffectsStale
  /\ accumulatedDegrees' = IF WheelEffectStale THEN 0 ELSE accumulatedDegrees
  /\ handlerSidebarOpen' = sidebarOpen
  /\ handlerNotificationShown' = notificationShown
  /\ keySidebarOpen' = sidebarOpen
  /\ flushUrgent' = FALSE
  /\ UNCHANGED <<showNotification, selectedSphere>>
  /\ UNCHANGED <<restVars, directorVars, stageVars, sideVars, wheelVars, scrollVars,
                 historyVars>>

\* closeSidebar(): onClick of the close button
CloseSidebar ==
  /\ ~flushUrgent
  /\ ~EffectsStale           \* React flushes pending effects before a click renders
  /\ uiInputs < MaxUiInputs
  /\ sidebarOpen' = FALSE
  /\ showSphereControls' = FALSE
  /\ selectedSphere' = Null
  /\ dropdownStates' = AllCollapsed
  /\ flushUrgent' = sidebarOpen
  /\ lastClose' = IF sidebarOpen
                    THEN [by |-> "button",
                          hadOpen |-> dropdownStates # AllCollapsed,
                          above |-> rotationDegrees >= OpenAt]
                    ELSE lastClose
  /\ uiInputs' = uiInputs + 1
  /\ UNCHANGED <<showNotification, notificationShown, sessionTimers,
                 accumulatedDegrees, handlerSidebarOpen,
                 handlerNotificationShown, keySidebarOpen, notifTriggers>>
  /\ UNCHANGED <<restVars, directorVars, stageVars, wheelVars, scrollVars>>

\* handleKeyDown(e) with e.key === 'Escape', run by the subscribed closure
PressEscape ==
  /\ ~flushUrgent
  /\ keySidebarOpen                       \* && sidebarOpen
  /\ uiInputs < MaxUiInputs
  /\ sidebarOpen' = FALSE
  /\ showSphereControls' = FALSE
  /\ selectedSphere' = Null
  /\ dropdownStates' = AllCollapsed
  /\ flushUrgent' = TRUE
  /\ lastClose' = IF sidebarOpen
                    THEN [by |-> "escape",
                          hadOpen |-> dropdownStates # AllCollapsed,
                          above |-> rotationDegrees >= OpenAt]
                    ELSE lastClose
  /\ uiInputs' = uiInputs + 1
  /\ UNCHANGED <<showNotification, notificationShown, sessionTimers,
                 accumulatedDegrees, handlerSidebarOpen,
                 handlerNotificationShown, keySidebarOpen, notifTriggers>>
  /\ UNCHANGED <<restVars, directorVars, stageVars, wheelVars, scrollVars>>

\* toggleDropdown(item)
ToggleDropdown(item) ==
  /\ ~flushUrgent
  /\ ~EffectsStale
  /\ uiInputs < MaxUiInputs
  /\ dropdownStates' = [dropdownStates EXCEPT ![item] = ~@]
  /\ uiInputs' = uiInputs + 1
  /\ UNCHANGED <<sidebarOpen, showSphereControls, notificationShown,
                 sessionTimers, showNotification, selectedSphere,
                 notifTriggers, lastClose>>
  /\ UNCHANGED <<restVars, directorVars, stageVars, effectVars, wheelVars, scrollVars>>

\* A pending 3000 ms timer fires: setShowNotification(false)
SessionTimerFires ==
  /\ ~flushUrgent
  /\ sessionTimers > 0
  /\ sessionTimers' = sessionTimers - 1
  /\ showNotification' = FALSE
  /\ UNCHANGED <<sidebarOpen, showSphereControls, notificationShown,
                 dropdownStates, selectedSphere>>
  /\ UNCHANGED <<restVars, directorVars, stageVars, effectVars, wheelVars, scrollVars,
                 historyVars>>

----------------------------------------------------------------------------
\* MenuHome, position-scroll variant (part_000)

\* JS comparisons: any comparison with NaN is false
JsLess(a, b) == a # NaN /\ b # NaN /\ a < b
JsAtLeast(a, b) == a # NaN /\ b # NaN /\ a >= b

\* rotationDegrees of handleScroll: 90 degrees over the first 25 percent.
\* With a zero extent the page cannot scroll: scrollPercent = 0 / 0 = NaN,
\* and Math.min(NaN, 1) = NaN.
ScrollRotation(pos, extent) ==
  IF extent = 0
    THEN NaN
    ELSE Min((pos * 100 * QuarterTurn) \div (MaxRotationScroll * extent),
             QuarterTurn)

\* Math.round(scrollPercent); Math.round(NaN) = NaN
RoundedPercent(pos, extent) ==
  IF extent = 0 THEN NaN ELSE (2 * pos * 100 + extent) \div (2 * extent)

\* newHeroOpacity of handleScroll
HeroOpacityFor(degrees) ==
  IF JsLess(degrees, HeroFadeEnd)
    THEN Max(FullOpacity - (degrees * HeroFadeSpan) \div HeroFadeEnd, HeroFloor)
    ELSE 0

\* newTitleOpacity of handleScroll
MenuTitleOpacityFor(degrees) ==
  IF JsLess(degrees, MenuOpenAt)
    THEN Max(FullOpacity - (degrees * FullOpacity) \div MenuOpenAt, 0)
    ELSE 0

\* handleScroll(), run by a closure that sees sidebarOpen = so and
\* notificationShown = ns
HandleScroll(so, ns) ==
  LET degrees == ScrollRotation(scrollTop, scrollExtent)
  IN /\ scrollProgress' = RoundedPercent(scrollTop, scrollExtent)
     /\ modelRotation' = degrees
     /\ heroOpacity' = HeroOpacityFor(degrees)
     /\ titleOpacity' = MenuTitleOpacityFor(degrees)
     /\ IF JsAtLeast(degrees, MenuOpenAt) /\ ~so
          THEN /\ sidebarOpen' = TRUE
               /\ IF ~ns
                    THEN ShowSessionNotification
                    ELSE UNCHANGED <<showNotification, sessionTimers,
                                     notificationShown, notifTriggers>>
               /\ UNCHANGED <<dropdownStates, lastClose>>
          ELSE IF JsLess(degrees, MenuOpenAt) /\ so
            THEN /\ sidebarOpen' = FALSE
                 /\ dropdownStates' = AllCollapsed
                 /\ lastClose' = IF sidebarOpen
                                   THEN [by |-> "scroll",
                                         hadOpen |-> dropdownStates # AllCollapsed,
                                         above |-> FALSE]
                                   ELSE lastClose
                 /\ UNCHANGED <<showNotification, sessionTimers,
                                notificationShown, notifTriggers>>
            ELSE UNCHANGED <<sidebarOpen, dropdownStates, lastClose,
                             showNotification, sessionTimers,
                             notificationShown, notifTriggers>>

\* A scroll event: throttledHandleScroll() restarts the 10 ms timer
ScrollTo(pos) ==
  /\ ~flushUrgent
  /\ scrollEvents < MaxScrollEvents
  /\ pos # scrollTop
  /\ pos <= scrollExtent        \* the browser clamps the scroll position
  /\ scrollTop' = pos
  /\ scrollTimerPending' = TRUE
  /\ scrollEvents' = scrollEvents + 1
  /\ lastClose' = [lastClose EXCEPT
                     !.above = @ /\ ScrollRotation(pos, scrollExtent) >= MenuOpenAt]
  /\ UNCHANGED <<scrollExtent, scrollProgress, modelRotation, showNotification,
                 selectedSphere, uiInputs, notifTriggers>>
  /\ UNCHANGED <<restVars, directorVars, stageVars, sideVars, effectVars, wheelVars>>

\* The 10 ms timer fires: handleScroll() of the closure that scheduled it
ScrollTimerFires ==
  /\ ~flushUrgent
  /\ scrollTimerPending
  /\ HandleScroll(handlerSidebarOpen, handlerNotificationShown)
  /\ scrollTimerPending' = FALSE
  /\ UNCHANGED <<scrollTop, scrollExtent, scrollEvents, showSphereControls,
                 selectedSphere, uiInputs>>
  /\ UNCHANGED <<radianVars, smootherVars, absentCalls, sceneVars>>
  /\ UNCHANGED <<directorVars, stageVars, effectVars, wheelVars>>

\* React re-runs the effects whose deps changed: the cleanup removes the
\* listener and clears the throttle timer, the effect body subscribes handlers
\* that see the current state and calls handleScroll() once.
MenuFlushEffects ==
  /\ EffectsStale
  /\ scrollTimerPending' = FALSE
  /\ handlerSidebarOpen' = sidebarOpen
  /\ handlerNotificationShown' = notificationShown
  /\ keySidebarOpen' = sidebarOpen
  /\ flushUrgent' = FALSE
  /\ HandleScroll(sidebarOpen, notificationShown)
  /\ UNCHANGED <<scrollTop, scrollExtent, scrollEvents, showSphereControls,
                 selectedSphere, uiInputs, accumulatedDegrees>>
  /\ UNCHANGED <<radianVars, smootherVars, absentCalls, sceneVars>>
  /\ UNCHANGED <<directorVars, stageVars, wheelVars>>

\* closeSidebar(): onClick of the close button and of the backdrop overlay
MenuCloseSidebar ==
  /\ ~flushUrgent
  /\ ~EffectsStale           \* React flushes pending effects before a click renders
  /\ uiInputs < MaxUiInputs
  /\ sidebarOpen' = FALSE
  /\ dropdownStates' = AllCollapsed
  /\ flushUrgent' = sidebarOpen
  /\ lastClose' = IF sidebarOpen
                    THEN [by |-> "button",
                          hadOpen |-> dropdownStates # AllCollapsed,
                          above |-> ScrollRotation(scrollTop, scrollExtent)
                                      >= MenuOpenAt]
                    ELSE lastClose
  /\ uiInputs' = uiInputs + 1
  /\ UNCHANGED <<showSphereControls, showNotification, notificationShown,
                 sessionTimers, selectedSphere, accumulatedDegrees,
                 handlerSidebarOpen, handlerNotificationShown, keySidebarOpen,
                 notifTriggers>>
  /\ UNCHANGED <<restVars, directorVars, stageVars, wheelVars, scrollVars>>

\* Variant of MenuPressEscape that leaves the dropdowns as they are.
MenuPressEscapeKeepsDropdowns ==
  /\ ~flushUrgent
  /\ keySidebarOpen
  /\ uiInputs < MaxUiInputs
  /\ sidebarOpen' = FALSE
  /\ flushUrgent' = TRUE
  /\ lastClose' = IF sidebarOpen
                    THEN [by |-> "escape",
                          hadOpen |-> dropdownStates # AllCollapsed,
                          above |-> ScrollRotation(scrollTop, scrollExtent)
                                      >= MenuOpenAt]
                    ELSE lastClose
  /\ uiInputs' = uiInputs + 1
  /\ UNCHANGED <<showSphereControls, showNotification, notificationShown,
                 sessionTimers, selectedSphere, accumulatedDegrees,
                 handlerSidebarOpen, handlerNotificationShown, keySidebarOpen,
                 notifTriggers, dropdownStates>>
  /\ UNCHANGED <<restVars, directorVars, stageVars, wheelVars, scrollVars>>

\* handleKeyDown(e) with e.key === 'Escape', run by the subscribed closure
MenuPressEscape ==
  /\ ~flushUrgent
  /\ keySidebarOpen                       \* && sidebarOpen
  /\ uiInputs < MaxUiInputs
  /\ sidebarOpen' = FALSE
  /\ dropdownStates' = AllCollapsed
  /\ flushUrgent' = TRUE
  /\ lastClose' = IF sidebarOpen
                    THEN [by |-> "escape",
                          hadOpen |-> dropdownStates # AllCollapsed,
                          above |-> ScrollRotation(scrollTop, scrollExtent)
                                      >= MenuOpenAt]
                    ELSE lastClose
  /\ uiInputs' = uiInputs + 1
  /\ UNCHANGED <<showSphereControls, showNotification, notificationShown,
                 sessionTimers, selectedSphere, accumulatedDegrees,
                 handlerSidebarOpen, handlerNotificationShown, keySidebarOpen,
                 notifTriggers>>
  /\ UNCHANGED <<restVars, directorVars, stageVars, wheelVars, scrollVars>>

----------------------------------------------------------------------------
\* Model smoother: useFrame of LODTinyHouseModel (part_002) and of
\* TinyHouseModel (part_003, always the "high" preset).  Factors are in
\* thousandths, rotations in 1e-4 degrees.

\* rotationQuality
rotationQuality(bucket) ==
  IF bucket = "low" THEN [lerpFactor |-> 120, momentum |-> 10, damping |-> 900]
  ELSE IF bucket = "mid"
    THEN [lerpFactor |-> 100, momentum |-> 15, damping |-> 870]
    ELSE [lerpFactor |-> 80, momentum |-> 20, damping |-> 850]

\* Variant of SmoothedVelocity that damps the old velocity only.
SmoothedVelocityDampFirst(difference, v, q) ==
  (v * q.damping) \div 1000 + (difference * q.momentum) \div 1000

\* velocity.current after the frame: the increment is added, then the sum
\* is damped
SmoothedVelocity(difference, v, q) ==
  ((v + (difference * q.momentum) \div 1000) * q.damping) \div 1000

\* Variant of SmoothedRotation without the lerp term: the velocity alone
\* carries the rotation.
SmoothedRotationVelocityOnly(difference, shown, v, q) ==
  shown + (SmoothedVelocity(difference, v, q) * VelocityGain) \div 1000

\* currentRotation.current after the frame
SmoothedRotation(difference, shown, v, q) ==
  shown + (difference * q.lerpFactor) \div 1000
        + (SmoothedVelocity(difference, v, q) * VelocityGain) \div 1000

\* the useFrame callback of the model: the refs after the frame
SmoothUpdate ==
  LET q == rotationQuality(fps)
      difference == targetRotation * SmoothUnit - currentRotation
  IN /\ velocity' = SmoothedVelocity(difference, velocity, q)
     /\ currentRotation' = SmoothedRotation(difference, currentRotation,
                                            velocity, q)
     /\ smoothFrames' = smoothFrames + 1

\* one frame of the smoother
SmoothFrame ==
  /\ SmoothUpdate
  /\ UNCHANGED <<fps, absentCalls, fadeVars, radianVars, sceneVars>>
  /\ UNCHANGED <<camVars, stageVars, sideVars, effectVars, wheelVars,
                 scrollVars, historyVars>>

\* a frame of a session with at most MaxSmoothFrames frames
FrameSmooth ==
  /\ smoothFrames < MaxSmoothFrames
  /\ SmoothFrame

----------------------------------------------------------------------------
\* MenuHome, radian-sensitivity wheel variant (MenuHome.tsx).
\* accumulatedRotation and targetRotation are counted in steps of
\* rotationSensitivity = 0.005 rad, i.e. they hold the sum of the deltaY.

\* Math.abs((rotation * 180) / Math.PI) % 360, in micro-degrees
RadianDegrees(rotation) ==
  (Abs(rotation) * MicroDegPerStep) % (FullTurn * MicroPerTenth)

\* Math.round of a non-negative number of micro-degrees, in whole degrees
RoundDegrees(micro) == (2 * micro + MicroPerDegree) \div (2 * MicroPerDegree)

\* const rotationDegrees = Math.round(Math.abs((targetRotation*180)/PI) % 360),
\* computed by every render
RadianReadout == RoundDegrees(RadianDegrees(menuTargetRotation))

\* handleWheel(e) of MenuHome.tsx, run by the subscribed closure; the stage
\* outputs are computed from the degrees cut to tenths
RadianHandleWheel(deltaY) ==
  LET acc == accumulatedRotation + deltaY
      degrees == RadianDegrees(acc) \div MicroPerTenth
  IN /\ ~flushUrgent
     /\ radianEvents < MaxRadianEvents
     /\ deltaY < 0 => backwardEvents < MaxBackward
     /\ accumulatedRotation' = acc
     /\ menuTargetRotation' = acc
     /\ titleOpacity' = TitleOpacityFor(degrees)
     /\ modelScale' = ScaleFor(degrees)
     /\ IF degrees >= OpenAt /\ ~handlerSidebarOpen
          THEN /\ sidebarOpen' = TRUE
               /\ IF ~handlerNotificationShown
                    THEN ShowSessionNotification
                    ELSE UNCHANGED <<showNotification, sessionTimers,
                                     notificationShown, notifTriggers>>
          ELSE UNCHANGED <<sidebarOpen, showNotification, sessionTimers,
                           notificationShown, notifTriggers>>
     /\ radianEvents' = radianEvents + 1
     /\ backwardEvents' = IF deltaY < 0 THEN backwardEvents + 1
                                        ELSE backwardEvents
     /\ UNCHANGED <<showSphereControls, dropdownStates, effectVars, wheelVars,
                    selectedSphere, targetRotation, wheelEvents, uiInputs,
                    lastClose>>
     /\ UNCHANGED <<heroOpacity, smootherVars, absentCalls, sceneVars>>
     /\ UNCHANGED <<directorVars, scrollVars>>

\* React re-runs the effects whose deps changed: the wheel effect body runs
\* again, declares a new accumulatedRotation = 0 and subscribes a handler
\* that sees the current state. The targetRotation state is not touched.
RadianFlushEffects ==
  /\ EffectsStale
  /\ accumulatedRotation' = IF WheelEffectStale THEN 0 ELSE accumulatedRotation
  /\ handlerSidebarOpen' = sidebarOpen
  /\ handlerNotificationShown' = notificationShown
  /\ keySidebarOpen' = sidebarOpen
  /\ flushUrgent' = FALSE
  /\ UNCHANGED <<accumulatedDegrees, showNotification, selectedSphere>>
  /\ UNCHANGED <<menuTargetRotation, radianEvents, fadeVars, smootherVars,
                 absentCalls, sceneVars>>
  /\ UNCHANGED <<directorVars, stageVars, sideVars, wheelVars, scrollVars,
                 historyVars>>

----------------------------------------------------------------------------
\* The sphere registry: spheres state of LODOptimizedScene (part_002) and of
\* the scene of part_003.  Coordinates are in thousandths.

\* menuData
menuData ==
  [Living_Room |-> <<"Samsung TV", "LED lights", "Videogame", "Carpet">>,
   Kitchen |-> <<"Oven", "Microwave", "Mixer", "Cooktop">>,
   Bedroom |-> <<"Bed", "Rug", "Desk", "Chair">>,
   Bathroom |-> <<"Shower", "Toilet", "LED lights", "Towell Hanger">>]

\* allAppliances: the rooms of menuData spread in order
allAppliances ==
  menuData.Living_Room \o menuData.Kitchen \o menuData.Bedroom
    \o menuData.Bathroom

\* colors
colors ==
  << "#ff6b6b", "#4ecdc4", "#45b7d1", "#96ceb4", "#feca57", "#ff9ff3",
     "#54a0ff", "#5f27cd", "#00d2d3", "#ff9f43", "#ee5a24", "#0abde3",
     "#10ac84", "#f368e0", "#3742fa", "#2f3542" >>

\* the initial value of the spheres state: Array.from({ length: 16 }, ...)
SeededSpheres ==
  [index \in 1..NumSpheres |->
     [id |-> index,
      x |-> specificCoordinates[index].x,
      y |-> specificCoordinates[index].y,
      z |-> specificCoordinates[index].z,
      visible |-> TRUE,
      color |-> colors[index],
      name |-> allAppliances[index]]]

\* the scene after mount
SceneMounted ==
  /\ spheres = SeededSpheres
  /\ lod = [sphereId |-> Null]   \* no sphere rendered yet
  /\ registryLog = <<>>
  /\ mounted = TRUE
  /\ lateCallbacks = 0

----------------------------------------------------------------------------
\* Registry operations of the sphere controls panel.

MaxRegistryOps == 3

\* Math.random(), in thousandths
RandomDraws == {0, 999}

\* the draws of one resetAllSpheres call: for each sphere the three results
\* of Math.random(), in thousandths
RandomStreams ==
  { [index \in 1..NumSpheres |-> [x |-> 0, y |-> 0, z |-> 0]],
    [index \in 1..NumSpheres |-> [x |-> 999, y |-> 999, z |-> 999]],
    [index \in 1..NumSpheres |->
       [x |-> (index * 61) % 1000, y |-> (index * 211) % 1000,
        z |-> (index * 389) % 1000]] }

\* value of the range input of an axis: min and max of the slider
SliderValues(axis) == IF axis = "y" THEN {-2000, 6000} ELSE {-8000, 8000}

CanEditRegistry == Len(registryLog) < MaxRegistryOps

LogRegistry(op, variant) ==
  registryLog' = Append(registryLog, [op |-> op, variant |-> variant])

\* what a registry operation leaves alone besides the camera director
RegistryFrame ==
  UNCHANGED <<stageVars, sideVars, effectVars, wheelVars, scrollVars,
              historyVars, fadeVars, radianVars, smootherVars, absentCalls,
              lod, mounted, lateCallbacks>>

\* updateSpherePosition(id, axis, value)
UpdateSpherePosition(id, axis, value) ==
  /\ CanEditRegistry
  /\ spheres' = [index \in DOMAIN spheres |->
                   IF spheres[index].id = id
                     THEN [spheres[index] EXCEPT ![axis] = value]
                     ELSE spheres[index]]
  /\ LogRegistry("setPosition", "lod")
  /\ UNCHANGED camVars
  /\ RegistryFrame

\* toggleSphereVisibility(id)
ToggleSphereVisibility(id) ==
  /\ CanEditRegistry
  /\ spheres' = [index \in DOMAIN spheres |->
                   IF spheres[index].id = id
                     THEN [spheres[index] EXCEPT !.visible = ~@]
                     ELSE spheres[index]]
  /\ LogRegistry("toggleVisible", "lod")
  /\ UNCHANGED camVars
  /\ RegistryFrame

\* Variant of RandomPosition that spreads x and z over (Math.random() - 0.5) * 20.
RandomPositionWide(sphere, draw) ==
  [sphere EXCEPT !.x = (draw.x - 500) * 20,
                 !.y = draw.y * 8 - 2000,
                 !.z = (draw.z - 500) * 20]

\* { ...sphere, x: (Math.random() - 0.5) * 16, y: Math.random() * 8 - 2,
\*   z: (Math.random() - 0.5) * 16 }
RandomPosition(sphere, draw) ==
  [sphere EXCEPT !.x = (draw.x - 500) * 16,
                 !.y = draw.y * 8 - 2000,
                 !.z = (draw.z - 500) * 16]

\* resetSpherePosition(id)
ResetSpherePosition(id, draw) ==
  /\ CanEditRegistry
  /\ spheres' = [index \in DOMAIN spheres |->
                   IF spheres[index].id = id
                     THEN RandomPosition(spheres[index], draw)
                     ELSE spheres[index]]
  /\ LogRegistry("resetPosition", "lod")
  /\ UNCHANGED camVars
  /\ RegistryFrame

\* resetAllSpheres()
ResetAllSpheres(stream) ==
  /\ CanEditRegistry
  /\ spheres' = [index \in DOMAIN spheres |->
                   RandomPosition(spheres[index], stream[index])]
  /\ LogRegistry("resetAll", "lod")
  /\ UNCHANGED camVars
  /\ RegistryFrame

\* exportCoordinates(): log the registry, show the notification for 2000 ms
ExportCoordinates ==
  /\ CanEditRegistry
  /\ notificationText' = [kind |-> "exported", id |-> Null]
  /\ showNotification' = TRUE
  /\ dismissTimers' = dismissTimers + 1
  /\ LogRegistry("export", "lod")
  /\ UNCHANGED <<cameraTarget, focusedSphere, cameraMode, pendingTarget,
                 transitionPhase, selectedSphere, isAnimating, isLocked,
                 posLeft, lookLeft, settleTimers, cameraView, inputLog,
                 completions, settleFired, transitionFor>>
  /\ UNCHANGED spheres
  /\ RegistryFrame

\* part_003: { ...sphere, x: (Math.random() - 0.5) * 12,
\*   y: Math.random() * 6 - 1, z: (Math.random() - 0.5) * 12 }
AnimatedRandomPosition(sphere, draw) ==
  [sphere EXCEPT !.x = (draw.x - 500) * 12,
                 !.y = draw.y * 6 - 1000,
                 !.z = (draw.z - 500) * 12]

\* part_003: resetSpherePosition(id)
AnimatedResetSpherePosition(id, draw) ==
  /\ CanEditRegistry
  /\ spheres' = [index \in DOMAIN spheres |->
                   IF spheres[index].id = id
                     THEN AnimatedRandomPosition(spheres[index], draw)
                     ELSE spheres[index]]
  /\ LogRegistry("resetPosition", "simple")
  /\ UNCHANGED camVars
  /\ RegistryFrame

\* part_003: resetAllSpheres() also shows every sphere and clears the
\* selection
AnimatedResetAllSpheres(stream) ==
  /\ CanEditRegistry
  /\ spheres' = [index \in DOMAIN spheres |->
                   [AnimatedRandomPosition(spheres[index], stream[index])
                      EXCEPT !.visible = TRUE]]
  /\ selectedSphere' = Null
  /\ LogRegistry("resetAll", "simple")
  /\ UNCHANGED <<cameraTarget, focusedSphere, cameraMode, pendingTarget,
                 transitionPhase, notificationText, showNotification,
                 isAnimating, isLocked, posLeft, lookLeft, settleTimers,
                 dismissTimers, cameraView, inputLog, completions,
                 settleFired, transitionFor>>
  /\ RegistryFrame

\* part_003: exportCoordinates()
AnimatedExportCoordinates ==
  /\ CanEditRegistry
  /\ showNotification' = TRUE
  /\ dismissTimers' = dismissTimers + 1
  /\ LogRegistry("export", "simple")
  /\ UNCHANGED <<cameraTarget, focusedSphere, cameraMode, pendingTarget,
                 transitionPhase, selectedSphere, notificationText,
                 isAnimating, isLocked, posLeft, lookLeft, settleTimers,
                 cameraView, inputLog, completions, settleFired,
                 transitionFor>>
  /\ UNCHANGED spheres
  /\ RegistryFrame

----------------------------------------------------------------------------
\* Level of detail of a positioning sphere (part_002:51-225).  Distances are in
\* thousandths, factors and opacities in thousandths.

\* camera.position.distanceTo(spherePos) of a render
LodDistances == {1999, 2000, 5000, 9999, 10000}

\* Variant of useDistanceLOD without the special case of the focused sphere.
useDistanceLODByDistance(distance, focused, sphereId) ==
  IF distance < 2000
    THEN [detail |-> "high", visible |-> TRUE, showWireframe |-> TRUE,
          showFloating |-> TRUE,
          geometryDetail |-> [widthSegments |-> 16, heightSegments |-> 16]]
  ELSE IF distance < 5000
    THEN [detail |-> "medium", visible |-> TRUE, showWireframe |-> TRUE,
          showFloating |-> TRUE,
          geometryDetail |-> [widthSegments |-> 12, heightSegments |-> 12]]
  ELSE IF distance < 10000
    THEN [detail |-> "low", visible |-> TRUE, showWireframe |-> FALSE,
          showFloating |-> FALSE,
          geometryDetail |-> [widthSegments |-> 8, heightSegments |-> 8]]
    ELSE [detail |-> "low", visible |-> FALSE, showWireframe |-> FALSE,
          showFloating |-> FALSE,
          geometryDetail |-> [widthSegments |-> 6, heightSegments |-> 6]]

\* useDistanceLOD(position, camera, focusedSphere, sphereId), the distance
\* being camera.position.distanceTo(position)
useDistanceLOD(distance, focused, sphereId) ==
  IF sphereId # 0 /\ focused = sphereId
    THEN [detail |-> "high", visible |-> TRUE, showWireframe |-> TRUE,
          showFloating |-> TRUE,
          geometryDetail |-> [widthSegments |-> 32, heightSegments |-> 32]]
  ELSE IF distance < 2000
    THEN [detail |-> "high", visible |-> TRUE, showWireframe |-> TRUE,
          showFloating |-> TRUE,
          geometryDetail |-> [widthSegments |-> 16, heightSegments |-> 16]]
  ELSE IF distance < 5000
    THEN [detail |-> "medium", visible |-> TRUE, showWireframe |-> TRUE,
          showFloating |-> TRUE,
          geometryDetail |-> [widthSegments |-> 12, heightSegments |-> 12]]
  ELSE IF distance < 10000
    THEN [detail |-> "low", visible |-> TRUE, showWireframe |-> FALSE,
          showFloating |-> FALSE,
          geometryDetail |-> [widthSegments |-> 8, heightSegments |-> 8]]
    ELSE [detail |-> "low", visible |-> FALSE, showWireframe |-> FALSE,
          showFloating |-> FALSE,
          geometryDetail |-> [widthSegments |-> 6, heightSegments |-> 6]]

\* performanceAdjustment: 0.5 below 30 fps, 0.75 below 45 fps, otherwise 1.0
performanceAdjustment(bucket) ==
  IF bucket = "low" THEN 500 ELSE IF bucket = "mid" THEN 750 ELSE 1000

\* Variant of finalGeometryDetail without the lower limit of 4 segments.
finalGeometryDetailUnlimited(geometryDetail, adjustment) ==
  [widthSegments |-> (geometryDetail.widthSegments * adjustment) \div 1000,
   heightSegments |-> (geometryDetail.heightSegments * adjustment) \div 1000]

\* finalGeometryDetail: Math.max(4, Math.floor(segments * performanceAdjustment))
finalGeometryDetail(geometryDetail, adjustment) ==
  [widthSegments |->
     Max(4, (geometryDetail.widthSegments * adjustment) \div 1000),
   heightSegments |->
     Max(4, (geometryDetail.heightSegments * adjustment) \div 1000)]

\* opacity: 0.9 * (1.0 | 0.8 | 0.6 by detail) * performanceAdjustment
SphereOpacity(detail, adjustment) ==
  LET distanceOpacity == IF detail = "high" THEN 1000
                         ELSE IF detail = "medium" THEN 800 ELSE 600
  IN (((900 * distanceOpacity) \div 1000) * adjustment) \div 1000

\* visibleSpheres of LODTinyHouseModel holds the sphere; shown is the outcome
\* of Math.random() < 0.3 for it
InVisibleSpheres(sphere, shown) ==
  IF fps = "low"
    THEN sphere.id = focusedSphere \/ (sphere.visible /\ shown)
    ELSE sphere.visible

\* a render of the LODPositioningSphere of sphere id with the camera at the
\* given distance: the hooks run before the early return
RenderSphere(id, distance, shown) ==
  LET sphere == spheres[id]
      decision == useDistanceLOD(distance, focusedSphere, sphere.id)
      adjustment == performanceAdjustment(fps)
  IN /\ showSphereControls
     /\ InVisibleSpheres(sphere, shown)
     /\ lod' = [sphereId |-> sphere.id,
                distance |-> distance,
                focused |-> focusedSphere = sphere.id,
                fps |-> fps,
                decision |-> decision,
                finalGeometryDetail |->
                  finalGeometryDetail(decision.geometryDetail, adjustment),
                opacity |-> SphereOpacity(decision.detail, adjustment),
                rendered |-> sphere.visible /\ decision.visible]
     /\ UNCHANGED <<spheres, registryLog, mounted, lateCallbacks>>
     /\ UNCHANGED <<camVars, stageVars, sideVars, effectVars, wheelVars,
                    scrollVars, historyVars, fadeVars, radianVars,
                    smootherVars, absentCalls>>

\* usePerformanceMonitor: once a second setFps(frameCount.current)
MeasureFps(bucket) ==
  /\ fps # bucket
  /\ fps' = bucket
  /\ UNCHANGED <<currentRotation, velocity, smoothFrames>>
  /\ UNCHANGED <<camVars, stageVars, sideVars, effectVars, wheelVars,
                 scrollVars, historyVars, fadeVars, radianVars, absentCalls,
                 sceneVars>>

----------------------------------------------------------------------------
\* Mount states

DirectorMounted ==
  /\ cameraTarget = [pose |-> OverviewPose(InitialScale), animating |-> FALSE]
  /\ focusedSphere = Null
  /\ cameraMode = "overview"
  /\ pendingTarget = Null
  /\ transitionPhase = "none"
  /\ selectedSphere = Null
  /\ notificationText = [kind |-> "", id |-> Null]
  /\ showNotification = FALSE
  /\ isAnimating = FALSE
  /\ isLocked = FALSE
  /\ posLeft = 0
  /\ lookLeft = 0
  /\ settleTimers = <<>>
  /\ dismissTimers = 0
  /\ cameraView = [kind |-> "drift", id |-> Null, rot |-> 0]
  /\ inputLog = <<>>
  /\ completions = 0
  /\ settleFired = 0
  /\ transitionFor = Null

\* MenuHome after mount: the scroll effect has run handleScroll() once
ScrollMounted ==
  /\ scrollTop = 0
  /\ scrollExtent \in ScrollExtents
  /\ scrollProgress = RoundedPercent(0, scrollExtent)
  /\ modelRotation = ScrollRotation(0, scrollExtent)
  /\ heroOpacity = HeroOpacityFor(ScrollRotation(0, scrollExtent))
  /\ titleOpacity = MenuTitleOpacityFor(ScrollRotation(0, scrollExtent))
  /\ scrollTimerPending = FALSE
  /\ scrollEvents = 0

\* the scroll variant is not on the page
ScrollIdle ==
  /\ scrollTop = 0
  /\ scrollExtent = 1000
  /\ scrollProgress = 0
  /\ modelRotation = 0
  /\ heroOpacity = FullOpacity
  /\ scrollTimerPending = FALSE
  /\ scrollEvents = 0

\* the radian-sensitivity variant at mount
RadianMounted ==
  /\ accumulatedRotation = 0
  /\ menuTargetRotation = 0
  /\ radianEvents = 0

\* the refs of the model smoother, at rest on the target rotation
SmootherRefsAtRest ==
  /\ currentRotation = targetRotation * SmoothUnit
  /\ velocity = 0
  /\ smoothFrames = 0

\* the model smoother at rest, the monitor reporting 60 fps
SmootherAtRest ==
  /\ SmootherRefsAtRest
  /\ fps = "high"

\* the controller right after mount
ControllerMounted ==
  /\ targetRotation = 0
  /\ modelScale = InitialScale
  /\ rotationDegrees = 0
  /\ sidebarOpen = FALSE
  /\ showSphereControls = FALSE
  /\ notificationShown = FALSE
  /\ dropdownStates = AllCollapsed
  /\ sessionTimers = 0
  /\ accumulatedDegrees = 0
  /\ handlerSidebarOpen = FALSE
  /\ handlerNotificationShown = FALSE
  /\ keySidebarOpen = FALSE
  /\ flushUrgent = FALSE
  /\ wheelEvents = 0
  /\ backwardEvents = 0
  /\ uiInputs = 0
  /\ notifTriggers = 0
  /\ lastClose = NoClose

\* the controller after OpenAt / DegreesPerScroll forward wheel events, the
\* re-run of the effects and the 3000 ms dismiss timer
ControllerAfterOpening ==
  /\ targetRotation = OpenAt
  /\ modelScale = MaxScale
  /\ rotationDegrees = OpenAt
  /\ sidebarOpen = TRUE
  /\ showSphereControls = TRUE
  /\ notificationShown = TRUE
  /\ dropdownStates = AllCollapsed
  /\ sessionTimers = 0
  /\ accumulatedDegrees = 0
  /\ handlerSidebarOpen = TRUE
  /\ handlerNotificationShown = TRUE
  /\ keySidebarOpen = TRUE
  /\ flushUrgent = FALSE
  /\ wheelEvents = OpenAt \div DegreesPerScroll
  /\ backwardEvents = 0
  /\ uiInputs = 0
  /\ notifTriggers = 1
  /\ lastClose = NoClose
  /\ titleOpacity = 0

InitWheel ==
  /\ DirectorMounted
  /\ ScrollIdle
  /\ ControllerMounted
  /\ titleOpacity = FullOpacity
  /\ RadianMounted
  /\ SmootherAtRest
  /\ absentCalls = 0
  /\ SceneMounted

NextWheel ==
  \/ \E deltaY \in WheelDeltas : HandleWheel(deltaY)
  \/ FlushEffects
  \/ CloseSidebar
  \/ PressEscape
  \/ \E item \in ToggleItems : ToggleDropdown(item)
  \/ SessionTimerFires

SpecWheel == InitWheel /\ [][NextWheel]_vars

InitScroll ==
  /\ DirectorMounted
  /\ ScrollMounted
  /\ ControllerMounted
  /\ RadianMounted
  /\ SmootherAtRest
  /\ absentCalls = 0
  /\ SceneMounted

NextScroll ==
  \/ \E pos \in ScrollPositions : ScrollTo(pos)
  \/ ScrollTimerFires
  \/ MenuFlushEffects
  \/ MenuCloseSidebar
  \/ MenuPressEscape
  \/ \E item \in ToggleItems : ToggleDropdown(item)
  \/ SessionTimerFires

SpecScroll == InitScroll /\ [][NextScroll]_vars

\* MenuHome.tsx: the radian-sensitivity wheel controller
InitRadian == InitWheel

NextRadian ==
  \/ \E deltaY \in RadianDeltas : RadianHandleWheel(deltaY)
  \/ RadianFlushEffects
  \/ SessionTimerFires

SpecRadian == InitRadian /\ [][NextRadian]_vars

----------------------------------------------------------------------------
\* The camera session starts in the state the wheel handler has left after the
\* burst of forward wheel events that opens the sidebar: the dropdown items
\* and sphere cards are rendered inside the opened sidebar.
InitCamera ==
  /\ DirectorMounted
  /\ ScrollIdle
  /\ ControllerAfterOpening
  /\ RadianMounted
  /\ SmootherAtRest
  /\ absentCalls = 0
  /\ SceneMounted

NextCamera ==
  \/ \E id \in FocusIds : ClickDropdownItem(id)
  \/ \E id \in FocusIds : ClickSphereCard(id)
  \/ ResetCamera
  \/ FrameAnimate
  \/ FrameLocked
  \/ FrameOverview
  \/ SettleTimerFires
  \/ DismissTimerFires

SpecCamera == InitCamera /\ [][NextCamera]_vars

\* The camera director of LODOptimizedScene with calls of zoomToSphere for
\* ids that are not in the registry.
InitRegistry == InitCamera

SceneCanInput == Len(inputLog) < MaxSceneInputs

NextRegistry ==
  \/ SceneCanInput /\ \E id \in SceneIds : ClickDropdownItem(id)
  \/ SceneCanInput /\ \E id \in SceneIds : ClickSphereCard(id)
  \/ SceneCanInput /\ ResetCamera
  \/ FrameAnimate
  \/ FrameLocked
  \/ FrameOverview
  \/ SettleTimerFires
  \/ DismissTimerFires
  \/ \E id \in AbsentIds : FocusAbsent(id)

SpecRegistry == InitRegistry /\ [][NextRegistry]_vars

\* The model smoother from mount, under each fps preset, while the wheel
\* moves the target rotation
InitSmoother ==
  /\ DirectorMounted
  /\ ScrollIdle
  /\ ControllerMounted
  /\ titleOpacity = FullOpacity
  /\ RadianMounted
  /\ SmootherRefsAtRest
  /\ fps \in FpsBuckets
  /\ absentCalls = 0
  /\ SceneMounted

SmootherCanWheel == wheelEvents < MaxSmootherWheel

NextSmoother ==
  \/ SmootherCanWheel /\ \E deltaY \in WheelDeltas : HandleWheel(deltaY)
  \/ FrameSmooth

SpecSmoother == InitSmoother /\ [][NextSmoother]_vars

\* The simple camera of part_003 once the sidebar has opened
InitAnimated == InitCamera

NextAnimated ==
  \/ \E id \in FocusIds : AnimatedClickDropdownItem(id)
  \/ \E id \in FocusIds : AnimatedClickSphereCard(id)
  \/ AnimatedClickReset
  \/ AnimatedFrame
  \/ AnimatedFrameDrift
  \/ DismissTimerFires

SpecAnimated == InitAnimated /\ [][NextAnimated]_vars

\* The 3D scene of LODOptimizedScene once the sidebar has opened: the wheel
\* turns the model, the smoother follows, and one focus or reset is issued.
InitScene == InitCamera

TrackedCanInput == Len(inputLog) < MaxTrackedInputs

SceneCanWheel == wheelEvents < OpenAt \div DegreesPerScroll + MaxSceneWheel

NextScene ==
  \/ TrackedCanInput /\ \E id \in SceneIds : ClickDropdownItem(id)
  \/ TrackedCanInput /\ \E id \in SceneIds : ClickSphereCard(id)
  \/ TrackedCanInput /\ ResetCamera
  \/ FrameAnimate
  \/ FrameLocked
  \/ FrameOverview
  \/ DismissTimerFires
  \/ SceneCanWheel /\ \E deltaY \in WheelDeltas : HandleWheel(deltaY)
  \/ FrameSmooth

SpecScene == InitScene /\ [][NextScene]_vars

----------------------------------------------------------------------------
\* Properties of the camera director

Focused(a) == cameraMode = "focused" /\ focusedSphere = a

Transitioning(phase, a) ==
  /\ cameraMode = "transitioning"
  /\ transitionPhase = phase
  /\ pendingTarget = a

\* The inputs so far are exactly focus(a) from the mount state, then focus(b).
FocusThenFocus(a, b) == inputLog = <<FocusInput(a), FocusInput(b)>>

\* No animation is running and no 400 ms callback is pending.
Quiescent ==
  /\ ~cameraTarget.animating
  /\ ~isAnimating
  /\ settleTimers = <<>>

LastInput == inputLog[Len(inputLog)]

OnlyFocusInputs == \A i \in 1..Len(inputLog) : inputLog[i].op = "focus"

C3_ResetNotResurrected ==
  (inputLog # <<>> /\ LastInput.op = "reset") =>
    /\ cameraMode = "overview"
    /\ focusedSphere = Null
    /\ cameraTarget.pose.kind = "overview"

\* C4: after a sequence of focus() calls, once every animation and pending
\* callback has run, the focused anchor is the one of the most recent focus().
C4_LastFocusWins ==
  (inputLog # <<>> /\ OnlyFocusInputs /\ Quiescent) => Focused(LastInput.id)

\* C5: cameraMode = 'focused' implies focusedSphere is non-null, and
\* cameraMode = 'overview' implies focusedSphere is null.
C5_ModeMatchesFocus ==
  /\ cameraMode = "focused" => focusedSphere # Null
  /\ cameraMode = "overview" => focusedSphere = Null

\* A reset() issued while a sphere was focused has returned to OVERVIEW.
C5_Witness ==
  /\ Len(inputLog) >= 2
  /\ inputLog[Len(inputLog) - 1].op = "focus"
  /\ LastInput.op = "reset"
  /\ cameraMode = "overview"
  /\ focusedSphere = Null

\* C6, entry: TRANSITIONING is entered only from FOCUSED(a1) by a focus(a2)
\* with a2 # a1.
C6_EnteredOnlyFromFocused ==
  [][(cameraMode # "transitioning" /\ cameraMode' = "transitioning") =>
       /\ cameraMode = "focused"
       /\ focusedSphere # Null
       /\ pendingTarget' # focusedSphere
       /\ transitionFor' = pendingTarget']_vars

\* C6, resolution: when the last input began a transition to a2 and every
\* animation and pending callback has run, the director is in FOCUSED(a2).
C6_TransitionResolves ==
  (transitionFor # Null /\ Quiescent) => Focused(transitionFor)

----------------------------------------------------------------------------
\* Properties of the sidebar / notification controller

\* Sum of the signed per-event increments of all wheel events since mount.
SumOfIncrements == DegreesPerScroll * (wheelEvents - 2 * backwardEvents)

\* C1: in delta mode the accumulated rotation equals the sum of the signed
\* per-event increments (1.2 degrees per event) of all wheel events since
\* mount; it is never reset, whatever happens to the sidebar or the latch.
C1_AccumulatorIsSumOfIncrements ==
  accumulatedDegrees = SumOfIncrements

\* C7: across any sequence of threshold crossings and closes, the one-shot
\* session notification is triggered at most once, and exactly once as soon
\* as the latch is set.
C7_SessionNotificationOnce ==
  /\ notifTriggers <= 1
  /\ notificationShown => notifTriggers = 1

\* C8: after the user closed the sidebar (button, backdrop or Escape) while
\* the input signal was at or above the threshold, the sidebar stays closed
\* until the signal has gone below the threshold.
C8_StaysClosedUntilRecross ==
  (lastClose.by \in {"button", "escape"} /\ lastClose.above) => ~sidebarOpen

\* C9: every step that takes sidebarOpen from true to false leaves all four
\* dropdown flags false.
C9_CloseCollapsesDropdowns ==
  [][(sidebarOpen /\ ~sidebarOpen') => dropdownStates' = AllCollapsed]_vars

\* The sidebar was closed by scrolling back while a dropdown was expanded.
C9_Witness ==
  /\ lastClose.by = "scroll"
  /\ lastClose.hadOpen
  /\ ~sidebarOpen
  /\ dropdownStates = AllCollapsed

\* C10: from mount, after a run of forward wheel events only whose increments
\* total at least 65 degrees, the displayed rotation is at least 60 degrees,
\* the sidebar is open, the model scale is 2.8 and the session notification
\* has been triggered exactly once.
C10_ForwardRunReachesNavActive ==
  (backwardEvents = 0 /\ uiInputs = 0 /\ SumOfIncrements >= 650) =>
    /\ rotationDegrees >= OpenAt
    /\ sidebarOpen
    /\ modelScale = MaxScale
    /\ notifTriggers = 1

\* ---------------------------------------------------------------------------
\* The +50 degree scenario
\* ---------------------------------------------------------------------------

\* the state after 42 forward wheel events and nothing else: 50.4 degrees
FiftyDegreeRun == wheelEvents = 42 /\ backwardEvents = 0 /\ uiInputs = 0

\* C11 as stated: after the forward run to +50 degrees the stage is Model
\* Growing, the model scale is about 2.17, the sidebar is closed and the title
\* opacity is 0.
C11_FiftyDegreesScaleAbout217 ==
  FiftyDegreeRun =>
    /\ getCurrentStage(rotationDegrees) = "Stage 2: Model Growing"
    /\ modelScale \in 2120..2220
    /\ ~sidebarOpen
    /\ titleOpacity = 0

\* C11 amended: after the forward run to +50 degrees (42 events, 50.4 degrees)
\* the stage is Model Growing, the model scale is 1.5 + (50.4 - 30)/30 * 1.3 =
\* 2.384, the sidebar is closed and the title opacity is 0.
C11_FiftyDegreesScaleAbout238 ==
  FiftyDegreeRun =>
    /\ rotationDegrees = 504
    /\ getCurrentStage(rotationDegrees) = "Stage 2: Model Growing"
    /\ modelScale = 2384
    /\ ~sidebarOpen
    /\ titleOpacity = 0

C11_Witness ==
  /\ FiftyDegreeRun
  /\ accumulatedDegrees = 504
  /\ modelScale = 2384
  /\ titleOpacity = 0
  /\ ~sidebarOpen

\* ---------------------------------------------------------------------------
\* The displayed degrees
\* ---------------------------------------------------------------------------

\* C12: the display value is |accumulated rotation| mod 360 and lies in
\* [0, 360), both the stored rotationDegrees (tenths of a degree) and the
\* rounded degree readout of the radian-sensitivity variant.
C12_DisplayDegreesBelowFullTurn ==
  /\ rotationDegrees \in 0..(FullTurn - 1)
  /\ RadianReadout \in 0..359

\* the readout shows 360 for a rotation of 359.8 degrees
C12_ReadoutShowsFullTurn ==
  /\ RadianDegrees(menuTargetRotation) \div MicroPerTenth = 3598
  /\ RadianReadout = 360

\* ---------------------------------------------------------------------------
\* The model scale
\* ---------------------------------------------------------------------------

\* the scale the three bands prescribe, in thousandths, for tenths of a degree
BandScale(d) ==
  IF d < 300 THEN 1500
  ELSE IF d < 600 THEN 1500 + ((d - 300) * 1300) \div 300
  ELSE 2800

\* C13: the model scale set by a wheel event is 1.5 below 30 degrees,
\* 1.5 + (d - 30)/30 * 1.3 from 30 to 60 degrees and 2.8 from 60 degrees on;
\* it is 1.5 at 30, 2.15 at 45 and 2.8 at 60 degrees, does not decrease from
\* one wheel step to the next, and stays within [1.5, 2.8] in every state.
C13_ScaleFollowsBands ==
  /\ modelScale = BandScale(rotationDegrees)
  /\ modelScale \in 1500..2800
  /\ ScaleFor(300) = 1500
  /\ ScaleFor(450) = 2150
  /\ ScaleFor(600) = 2800
  /\ \A k \in 0..MaxWheelEvents :
       ScaleFor(k * DegreesPerScroll) <= ScaleFor((k + 1) * DegreesPerScroll)

C13_Witness ==
  /\ wheelEvents = 38
  /\ rotationDegrees = 456
  /\ modelScale = 2176

\* ---------------------------------------------------------------------------
\* A page that cannot scroll
\* ---------------------------------------------------------------------------

\* C14: in scroll mode with a zero scrollable extent the scroll progress is
\* 0 percent, never NaN, and the rotation, the hero and title opacities and the
\* sidebar are those of 0 percent progress.
C14_ZeroExtentIsZeroProgress ==
  scrollExtent = 0 =>
    /\ scrollProgress = 0
    /\ modelRotation = 0
    /\ heroOpacity = HeroOpacityFor(0)
    /\ titleOpacity = MenuTitleOpacityFor(0)
    /\ ~sidebarOpen

\* the mounted page that cannot scroll shows NaN percent and no hero or title
C14_ZeroExtentGivesNaN ==
  /\ scrollExtent = 0
  /\ scrollProgress = NaN
  /\ modelRotation = NaN
  /\ heroOpacity = 0
  /\ titleOpacity = 0

\* ---------------------------------------------------------------------------
\* Ids outside the registry
\* ---------------------------------------------------------------------------

\* C15: focus with an id that is not in the registry is a no-op in every
\* camera state: camera target, focusedSphere, cameraMode, pendingTarget,
\* transitionPhase and the notification are unchanged.
C15_AbsentIdIsNoOp ==
  [][absentCalls' # absentCalls =>
       UNCHANGED <<cameraTarget, focusedSphere, cameraMode, pendingTarget,
                   transitionPhase, notificationText, showNotification,
                   dismissTimers, selectedSphere>>]_vars

\* an absent id has been passed while a transition was zooming out
C15_Witness ==
  /\ absentCalls = 1
  /\ cameraMode = "transitioning"
  /\ transitionPhase = "zoom_out"
  /\ pendingTarget = 4
  /\ focusedSphere = Null

\* ---------------------------------------------------------------------------
\* Reset and the poses
\* ---------------------------------------------------------------------------

ResetStep == inputLog' = Append(inputLog, ResetInput)

FocusStep(a) == inputLog' = Append(inputLog, FocusInput(a))

\* C16: reset() in any camera state yields cameraMode = overview,
\* focusedSphere = null, pendingTarget = null, transitionPhase = none and a
\* camera target at (0, 3, 8 - (modelScale - 1.5) * 1.5) looking at (0, 0, 0)
\* with animating = true.
C16_ResetYieldsOverview ==
  [][ResetStep =>
       /\ cameraMode' = "overview"
       /\ focusedSphere' = Null
       /\ pendingTarget' = Null
       /\ transitionPhase' = "none"
       /\ cameraTarget'.animating
       /\ PosePosition(cameraTarget'.pose)
            = <<0, 3000, 8000 - ((modelScale - 1500) * 3) \div 2>>
       /\ PoseLookAt(cameraTarget'.pose) = <<0, 0, 0>>]_vars

\* reset() was called after a switch from sphere 3 to sphere 4
C16_Witness ==
  /\ inputLog = <<FocusInput(3), FocusInput(4), ResetInput>>
  /\ settleFired = 0
  /\ completions = 0
  /\ cameraMode = "overview"
  /\ focusedSphere = Null
  /\ cameraTarget = [pose |-> OverviewPose(MaxScale), animating |-> TRUE]

\* C19 as stated: with the seeded registry and rotation 0, focus(3) from
\* OVERVIEW sets the target lookAt to (-0.4, 0.1, 1.5).
C19_FocusThreeLooksAtCarpet ==
  [][(FocusStep(3) /\ cameraMode = "overview" /\ targetRotation = 0) =>
       PoseLookAt(cameraTarget'.pose) = <<-400, 100, 1500>>]_vars

\* C19 amended: with the seeded registry and rotation 0, focus(4) from
\* OVERVIEW sets the target lookAt to (-0.4, 0.1, 1.5), the seed of sphere 4,
\* and the target position to that point moved by 0.8 along
\* atan2(z, x) + 45 degrees and lifted by 0.3: (-1.092, 0.4, 1.901);
\* focus(3) looks at (-1.3, 2.2, 1.7).
C19_FocusFourLooksAtCarpet ==
  [][(cameraMode = "overview" /\ targetRotation = 0) =>
       /\ FocusStep(4) =>
            /\ PoseLookAt(cameraTarget'.pose) = <<-400, 100, 1500>>
            /\ Abs(PosePosition(cameraTarget'.pose)[1] + 1092) <= 1
            /\ PosePosition(cameraTarget'.pose)[2] = 400
            /\ Abs(PosePosition(cameraTarget'.pose)[3] - 1901) <= 1
       /\ FocusStep(3) =>
            PoseLookAt(cameraTarget'.pose) = <<-1300, 2200, 1700>>]_vars

C19_Witness ==
  /\ inputLog = <<FocusInput(4)>>
  /\ targetRotation = 0
  /\ cameraMode = "focused"
  /\ cameraTarget = [pose |-> SpherePose(4, 0), animating |-> TRUE]
  /\ PoseLookAt(cameraTarget.pose) = <<-400, 100, 1500>>

\* ---------------------------------------------------------------------------
\* Completion of a camera animation
\* ---------------------------------------------------------------------------

\* C17: a camera animation signals completion only in a frame in which both
\* the position and the look-at are within epsilon of the target; the position
\* being close is never sufficient alone.
C17_CompletionNeedsBothClose ==
  [][completions' = completions + 1 => (posLeft' = 0 /\ lookLeft' = 0)]_vars

\* completion was signalled with the look-at still away from the target
C17_CompletedLookingElsewhere ==
  /\ completions = 1
  /\ ~cameraTarget.animating
  /\ ~isAnimating
  /\ posLeft = 0
  /\ lookLeft > 0

\* ---------------------------------------------------------------------------
\* The rotation behind an anchor's world position
\* ---------------------------------------------------------------------------

\* C18: whenever an anchor's world position is derived, for the focus target
\* pose and for the locked per-frame pose, the angle used is the displayed
\* (smoothed) model rotation, not the raw target rotation.
C18_AnchorUsesDisplayedRotation ==
  [][/\ (cameraTarget' # cameraTarget /\ cameraTarget'.pose.kind = "sphere")
          => cameraTarget'.pose.rot * SmoothUnit = currentRotation
     /\ (cameraView' # cameraView /\ cameraView'.kind = "lock")
          => cameraView'.rot * SmoothUnit = currentRotation]_vars

\* sphere 4 was focused right after a wheel event, before the model moved:
\* the pose is computed for 1.2 degrees while the model is shown at 60
C18_FocusedAheadOfModel ==
  /\ inputLog = <<FocusInput(4)>>
  /\ smoothFrames = 0
  /\ targetRotation = 12
  /\ currentRotation = OpenAt * SmoothUnit
  /\ cameraTarget.pose = SpherePose(4, 12)

\* ---------------------------------------------------------------------------
\* The smoother against its reference update
\* ---------------------------------------------------------------------------

\* velocity' of the reference update: velocity * damping + diff * momentumGain
ReferenceVelocity(diff, v, q) ==
  (v * q.damping) \div 1000 + (diff * q.momentum) \div 1000

\* displayed' of the reference update:
\* displayed + diff * lerpFactor + velocity' * velocityGain
ReferenceRotation(diff, shown, v, q) ==
  shown + (diff * q.lerpFactor) \div 1000
        + (ReferenceVelocity(diff, v, q) * 100) \div 1000

\* C20 as stated: each frame of the smoother produces the velocity and the displayed
\* rotation of the reference update (diff = target - displayed,
\* velocity' = velocity * damping + diff * momentumGain,
\* displayed' = displayed + diff * lerpFactor + velocity' * velocityGain),
\* up to the rounding of the last digit, for every fps preset.
C20_FrameMatchesReference ==
  [][smoothFrames' = smoothFrames + 1 =>
       LET q == rotationQuality(fps)
           diff == targetRotation * SmoothUnit - currentRotation
       IN /\ Abs(velocity' - ReferenceVelocity(diff, velocity, q)) <= 2
          /\ Abs(currentRotation'
                   - ReferenceRotation(diff, currentRotation, velocity, q)) <= 2
    ]_vars

\* velocity' with the damping applied to the sum
DampedSumVelocity(diff, v, q) ==
  ((v + (diff * q.momentum) \div 1000) * q.damping) \div 1000

\* C20 amended: each frame of the smoother computes diff = target - displayed,
\* velocity' = (velocity + diff * momentumGain) * damping and
\* displayed' = displayed + diff * lerpFactor + velocity' * velocityGain, for
\* every fps preset.
C20_FrameDampsTheSum ==
  [][smoothFrames' = smoothFrames + 1 =>
       LET q == rotationQuality(fps)
           diff == targetRotation * SmoothUnit - currentRotation
       IN /\ q.lerpFactor \in {80, 100, 120}
          /\ velocity' = DampedSumVelocity(diff, velocity, q)
          /\ currentRotation' = currentRotation + (diff * q.lerpFactor) \div 1000
                                 + (velocity' * 100) \div 1000
    ]_vars

\* one frame after one forward wheel event at 60 fps: the velocity is
\* (0 + 1.2 * 0.02) * 0.85 = 0.0204 degrees where the reference has 0.024
C20_DampedIncrement ==
  /\ fps = "high"
  /\ wheelEvents = 1
  /\ targetRotation = 12
  /\ smoothFrames = 1
  /\ velocity = 204
  /\ ReferenceVelocity(12 * SmoothUnit, 0, rotationQuality("high")) = 240

----------------------------------------------------------------------------
\* Settling of the model smoother.  The session starts with the model at rest
\* on the rotation that opened the sidebar; the wheel moves the target during
\* the first MaxSettleFrames - SettleTicks frames only, and the frame loop
\* goes on for MaxSettleFrames frames, so that the last SettleTicks frames
\* run against a constant target.
MaxSettleFrames == 52
SettleTicks == 50
MaxSettleWheel == 102
MaxSettleForward == 1

NextSettle ==
  \/ \E deltaY \in WheelDeltas :
       /\ smoothFrames + SettleTicks < MaxSettleFrames
       /\ wheelEvents < MaxSettleWheel
       /\ deltaY > 0 =>
            wheelEvents - backwardEvents - OpenAt \div DegreesPerScroll
              < MaxSettleForward
       /\ WheelHandler(deltaY)
  \/ smoothFrames < MaxSettleFrames /\ SmoothFrame

SpecSettle == InitCamera /\ [][NextSettle]_vars

\* displayed rotation minus target rotation, in 1e-4 degrees
RotationError == currentRotation - targetRotation * SmoothUnit

\* |displayed - target| < 0.01 rad (twice the 0.005 rad of MicroDegPerStep)
WithinTolerance == Abs(RotationError) * 100 < 2 * MicroDegPerStep

\* at least SettleTicks frames have run since the target last moved
SettledTicks == smoothFrames + 1 >= MaxSettleFrames

\* how far the target is from the rotation the model rested on, in tenths
TargetTravel == Abs(targetRotation - OpenAt)

----------------------------------------------------------------------------
\* The sphere controls panel: the registry operations of both scenes, the
\* panel being open after the wheel opened the sidebar.
Axes == {"x", "y", "z"}

RandomDrawTriples == [x : RandomDraws, y : RandomDraws, z : RandomDraws]

NextSpheres ==
  \/ \E id \in SceneIds, axis \in Axes :
       \E value \in SliderValues(axis) : UpdateSpherePosition(id, axis, value)
  \/ \E id \in SceneIds : ToggleSphereVisibility(id)
  \/ \E id \in SceneIds, draw \in RandomDrawTriples :
       ResetSpherePosition(id, draw)
  \/ \E stream \in RandomStreams : ResetAllSpheres(stream)
  \/ ExportCoordinates
  \/ \E id \in SceneIds, draw \in RandomDrawTriples :
       AnimatedResetSpherePosition(id, draw)
  \/ \E stream \in RandomStreams : AnimatedResetAllSpheres(stream)
  \/ AnimatedExportCoordinates
  \/ DismissTimerFires

SpecSpheres == InitCamera /\ [][NextSpheres]_vars

\* the registry holds the 16 seeded anchors in order, each with its id, name
\* and color
RegistryIntact ==
  /\ DOMAIN spheres = 1..NumSpheres
  /\ \A index \in 1..NumSpheres :
       /\ spheres[index].id = index
       /\ spheres[index].name = allAppliances[index]
       /\ spheres[index].color = colors[index]

LastRegistryOp == registryLog[Len(registryLog)]

\* x and z in [-half, half), y in [low, high)
InBox(sphere, half, low, high) ==
  /\ -half <= sphere.x /\ sphere.x < half
  /\ -half <= sphere.z /\ sphere.z < half
  /\ low <= sphere.y /\ sphere.y < high

\* C22: after any sequence of registry operations (setPosition,
\* toggleVisible, resetPosition, resetAll, export) the registry holds exactly
\* the 16 anchors in the seeded order with ids 1..16 and unchanged id, name
\* and color; resetAll changes only x, y, z (and visible in the scene that
\* resets it), with x and z in [-8, 8) and y in [-2, 6) in the LOD scene and
\* x and z in [-6, 6) and y in [-1, 5) in the simple scene.
C22_RegistryKeepsIdentity ==
  /\ []RegistryIntact
  /\ [][(registryLog' # registryLog /\ LastRegistryOp'.op = "resetAll") =>
          \A index \in 1..NumSpheres :
            IF LastRegistryOp'.variant = "lod"
              THEN /\ InBox(spheres'[index], 8000, -2000, 6000)
                   /\ spheres'[index].visible = spheres[index].visible
              ELSE /\ InBox(spheres'[index], 6000, -1000, 5000)
                   /\ spheres'[index].visible]_vars

\* a resetAll after a toggle and a slider move: every anchor moved off its
\* seeded position, the registry still carries the seeded identities
C22_Witness ==
  /\ Len(registryLog) = MaxRegistryOps
  /\ registryLog[1].op = "toggleVisible"
  /\ registryLog[2].op = "setPosition"
  /\ LastRegistryOp.op = "resetAll"
  /\ \A index \in 1..NumSpheres : spheres[index].x # SeededSpheres[index].x
  /\ RegistryIntact

----------------------------------------------------------------------------
\* The rendered spheres: focus changes, fps readings, visibility toggles and
\* renders of the spheres at every distance band.
MaxLodToggles == 1

NextLod ==
  \/ TrackedCanInput /\ \E id \in SceneIds : ClickSphereCard(id)
  \/ TrackedCanInput /\ ResetCamera
  \/ \E bucket \in FpsBuckets : MeasureFps(bucket)
  \/ Len(registryLog) < MaxLodToggles
       /\ \E id \in SceneIds : ToggleSphereVisibility(id)
  \/ \E id \in SceneIds, distance \in LodDistances, shown \in BOOLEAN :
       RenderSphere(id, distance, shown)

SpecLod == InitCamera /\ [][NextLod]_vars

Rendered == lod.sphereId # Null

\* C23: for the focused anchor the LOD decision is detail high, visible,
\* wireframe on, floating on and 32x32 geometry at every camera distance,
\* the culled band (distance >= 10) included.
C23_FocusedIsFullDetail ==
  (Rendered /\ lod.focused) =>
     /\ lod.decision.detail = "high"
     /\ lod.decision.visible
     /\ lod.decision.showWireframe
     /\ lod.decision.showFloating
     /\ lod.decision.geometryDetail
          = [widthSegments |-> 32, heightSegments |-> 32]

\* the focused sphere rendered with the camera in the culled band
C23_Witness ==
  /\ Rendered
  /\ lod.focused
  /\ lod.distance >= 10000
  /\ focusedSphere = lod.sphereId
  /\ lod.decision.visible

\* segments of the band of a render before the performance adjustment
BandSegments ==
  IF lod.focused THEN 32
  ELSE IF lod.distance < 2000 THEN 16
  ELSE IF lod.distance < 5000 THEN 12
  ELSE IF lod.distance < 10000 THEN 8 ELSE 6

\* the performance factor of a render, as a fraction <<numerator, denominator>>
PerformanceFactor ==
  IF lod.fps = "low" THEN <<1, 2>>
  ELSE IF lod.fps = "mid" THEN <<3, 4>> ELSE <<1, 1>>

\* C24: for every distance band, focus state and fps bucket (< 30, < 45,
\* >= 45) the final geometry resolution is
\* floor(bandSegments * performanceFactor) raised to at least 4, in both
\* directions; it is never below 4.
C24_FinalGeometryFloorAtFour ==
  Rendered =>
    LET scaled == (BandSegments * PerformanceFactor[1])
                     \div PerformanceFactor[2]
        expected == IF scaled < 4 THEN 4 ELSE scaled
    IN /\ lod.finalGeometryDetail.widthSegments = expected
       /\ lod.finalGeometryDetail.heightSegments = expected
       /\ lod.finalGeometryDetail.widthSegments >= 4

\* an unfocused sphere of the culled band rendered below 30 fps: 6 * 0.5 = 3
\* is raised to 4
C24_Witness ==
  /\ Rendered
  /\ ~lod.focused
  /\ lod.distance >= 10000
  /\ lod.fps = "low"
  /\ lod.finalGeometryDetail = [widthSegments |-> 4, heightSegments |-> 4]

----------------------------------------------------------------------------
\* Teardown of the LOD scene.  The cleanups of the effects remove the wheel
\* and keydown listeners and clear scrollTimeout; the timers started with a
\* bare setTimeout (notification dismissals, the 400 ms settle timer) have
\* no handle and stay pending.  React drops the state updates of an
\* unmounted component, so a callback that runs late changes no state, but
\* it runs, and the settle callback starts a further timer.
MaxTeardownInputs == 2

Unmount ==
  /\ mounted
  /\ mounted' = FALSE
  /\ scrollTimerPending' = FALSE
  /\ UNCHANGED <<scrollTop, scrollExtent, scrollProgress, modelRotation,
                 scrollEvents>>
  /\ UNCHANGED <<camVars, stageVars, sideVars, effectVars, wheelVars,
                 historyVars, fadeVars, radianVars, smootherVars, absentCalls,
                 spheres, lod, registryLog, lateCallbacks>>

\* what a timer callback that runs after the unmount leaves alone
LateFrame ==
  UNCHANGED <<stageVars, effectVars, wheelVars, scrollVars, historyVars,
              fadeVars, radianVars, smootherVars, absentCalls, spheres, lod,
              registryLog, mounted>>

\* a 3000 ms timer fires after the unmount
LateSessionTimerFires ==
  /\ ~mounted
  /\ sessionTimers > 0
  /\ sessionTimers' = sessionTimers - 1
  /\ lateCallbacks' = lateCallbacks + 1
  /\ UNCHANGED <<sidebarOpen, showSphereControls, notificationShown,
                 dropdownStates>>
  /\ UNCHANGED camVars
  /\ LateFrame

\* a 2000 ms timer fires after the unmount
LateDismissTimerFires ==
  /\ ~mounted
  /\ dismissTimers > 0
  /\ dismissTimers' = dismissTimers - 1
  /\ lateCallbacks' = lateCallbacks + 1
  /\ UNCHANGED <<cameraTarget, focusedSphere, cameraMode, pendingTarget,
                 transitionPhase, selectedSphere, notificationText,
                 showNotification, isAnimating, isLocked, posLeft, lookLeft,
                 settleTimers, cameraView, inputLog, completions, settleFired,
                 transitionFor>>
  /\ UNCHANGED sideVars
  /\ LateFrame

\* the 400 ms timer fires after the unmount: its setTimeout for the
\* notification of the zoom-in is started all the same
LateSettleTimerFires ==
  /\ ~mounted
  /\ settleTimers # <<>>
  /\ settleTimers' = Tail(settleTimers)
  /\ dismissTimers' = IF Head(settleTimers).target \in SphereIds
                        THEN dismissTimers + 1 ELSE dismissTimers
  /\ settleFired' = settleFired + 1
  /\ lateCallbacks' = lateCallbacks + 1
  /\ UNCHANGED <<cameraTarget, focusedSphere, cameraMode, pendingTarget,
                 transitionPhase, selectedSphere, notificationText,
                 showNotification, isAnimating, isLocked, posLeft, lookLeft,
                 cameraView, inputLog, completions, transitionFor>>
  /\ UNCHANGED sideVars
  /\ LateFrame

\* the sphere cards and dropdown items are rendered in the opened sidebar
PanelUsable ==
  /\ mounted
  /\ sidebarOpen
  /\ ~EffectsStale
  /\ Len(inputLog) < MaxTeardownInputs

NextTeardown ==
  \/ mounted /\ ~sidebarOpen /\ HandleWheel(100)
  \/ mounted /\ FlushEffects
  \/ PanelUsable /\ \E id \in SceneIds : ClickDropdownItem(id)
  \/ PanelUsable /\ ResetCamera
  \/ mounted /\ FrameAnimate
  \/ mounted /\ SessionTimerFires
  \/ mounted /\ SettleTimerFires
  \/ mounted /\ DismissTimerFires
  \/ Unmount
  \/ LateSessionTimerFires
  \/ LateDismissTimerFires
  \/ LateSettleTimerFires

SpecTeardown == InitWheel /\ [][NextTeardown]_vars

NoPendingTimer ==
  /\ sessionTimers = 0
  /\ dismissTimers = 0
  /\ settleTimers = <<>>
  /\ ~scrollTimerPending

\* C25: once the component is unmounted no deferred callback is pending
\* (notification dismiss timers, the 400 ms settle timer, the scroll timer)
\* and none runs after the teardown.
C25_TeardownCancelsCallbacks ==
  ~mounted => (NoPendingTimer /\ lateCallbacks = 0)

\* the settle timer of a transition ran after the unmount and left a
\* notification timer pending
C25_SettleRanAfterUnmount ==
  /\ ~mounted
  /\ settleFired = 1
  /\ lateCallbacks > 0
  /\ settleTimers = <<>>
  /\ dismissTimers > 0

----------------------------------------------------------------------------
\* Lifetime of a notification.  Every notification starts its own 2000 ms
\* timer when it is shown; timers of equal duration fire in the order they
\* were started, so with two of them pending the one that fires next belongs
\* to an earlier notification than the one on screen.

\* C26: a notification stays visible for its full duration: the timer that
\* hides it is its own, never the dismiss timer of an earlier notification.
C26_HiddenByOwnTimer ==
  [][(showNotification /\ ~showNotification') => dismissTimers = 1]_vars

\* the notification of the reset is off the screen while its own timer is
\* still pending: the timer of the focus before it hid it
C26_HiddenWhileTimerPending ==
  /\ inputLog = <<FocusInput(5), ResetInput>>
  /\ ~showNotification
  /\ dismissTimers = 1
  /\ settleFired = 0

----------------------------------------------------------------------------
\* The render loop.  The useFrame callbacks of a tick run in the order in
\* which the components subscribed, which is the order of the children of
\* the Canvas: LODStaticCameraAnimation first, LODTinyHouseModel after it;
\* the scene is drawn once both have run.  The camera callback therefore
\* sees the refs of the model as the previous tick left them, and the scene
\* is drawn with the refs as this tick's model callback leaves them.

\* what the callbacks of a tick leave alone
TickFrame ==
  /\ UNCHANGED <<cameraTarget, focusedSphere, cameraMode, pendingTarget,
                 transitionPhase, selectedSphere, notificationText,
                 showNotification, isAnimating, isLocked, posLeft, lookLeft,
                 settleTimers, dismissTimers, inputLog, completions,
                 settleFired, transitionFor>>
  /\ UNCHANGED <<fps, absentCalls, fadeVars, radianVars, sceneVars>>
  /\ UNCHANGED <<stageVars, sideVars, effectVars, wheelVars, scrollVars,
                 historyVars>>

\* a tick with the camera locked on the focused sphere
LockedFrameTick ==
  /\ smoothFrames < MaxSmoothFrames
  /\ ~(cameraTarget.animating \/ isAnimating)
  /\ isLocked
  /\ focusedSphere # Null
  /\ cameraMode # "transitioning"
  /\ focusedSphere \in SphereIds
  /\ cameraView' = [kind |-> "lock", id |-> focusedSphere, rot |-> targetRotation]
  /\ SmoothUpdate
  /\ TickFrame

\* a tick with the camera in its overview drift
OverviewFrameTick ==
  /\ smoothFrames < MaxSmoothFrames
  /\ ~(cameraTarget.animating \/ isAnimating)
  /\ ~(isLocked /\ focusedSphere # Null /\ cameraMode # "transitioning")
  /\ ~isLocked
  /\ cameraView' = [kind |-> "drift", id |-> Null, rot |-> 0]
  /\ SmoothUpdate
  /\ TickFrame

\* The scene while it is drawn tick by tick: the wheel turns the model, one
\* focus is issued, the camera animates and locks.  During the camera
\* animation the two callbacks of a tick are taken as two steps.
NextTick ==
  \/ TrackedCanInput /\ \E id \in SceneIds : ClickDropdownItem(id)
  \/ SceneCanWheel /\ \E deltaY \in WheelDeltas : HandleWheel(deltaY)
  \/ FrameAnimate
  \/ (cameraTarget.animating \/ isAnimating) /\ FrameSmooth
  \/ LockedFrameTick
  \/ OverviewFrameTick
  \/ DismissTimerFires

SpecTick == InitCamera /\ [][NextTick]_vars

\* C27: in every tick in which the camera director places the camera from
\* the focused anchor's world position, the rotation it uses is the rotation
\* the model is drawn with in that tick (the smoother has run first).
C27_CameraUsesRenderedRotation ==
  [][(smoothFrames' # smoothFrames /\ cameraView'.kind = "lock"
        /\ isLocked /\ ~(cameraTarget.animating \/ isAnimating))
       => cameraView'.rot * SmoothUnit = currentRotation']_vars

\* after a tick with the camera locked, the camera stands where the anchor
\* is for the target rotation while the model is drawn more than one degree
\* behind it
C27_LockedAheadOfRenderedModel ==
  /\ cameraView.kind = "lock"
  /\ smoothFrames > 0
  /\ ~(cameraTarget.animating \/ isAnimating)
  /\ cameraView.rot = targetRotation
  /\ Abs(targetRotation * SmoothUnit - currentRotation) > 10 * SmoothUnit

----------------------------------------------------------------------------
\* The catalog dropdowns: a sub-item looks its sphere up by name.
MaxCatalogClicks == 2

\* Object.entries(menuData): the rooms in the order of the literal
RoomOrder == <<"Living_Room", "Kitchen", "Bedroom", "Bathroom">>

\* spheres.findIndex((s) => s.name === subItem): zero-based index of the
\* first sphere with that name, -1 when there is none
findIndexByName(subItem) ==
  LET hits == {index \in DOMAIN spheres : spheres[index].name = subItem}
  IN IF hits = {} THEN -1
     ELSE (CHOOSE index \in hits : \A other \in hits : index <= other) - 1

\* onClick of the sub-item subIndex of a room:
\* if (sphereId > 0) { zoomToSphere(sphereId); setSelectedSphere(sphereId) }
ClickSubItem(room, subIndex) ==
  LET sphereId == findIndexByName(menuData[room][subIndex]) + 1
  IN ClickDropdownItem(sphereId)

\* click on the k-th item of the flattened catalog
ClickCatalogItem(k) ==
  ClickSubItem(RoomOrder[((k - 1) \div 4) + 1], ((k - 1) % 4) + 1)

NextCatalog ==
  \/ Len(inputLog) < MaxCatalogClicks
       /\ \E room \in MenuItems, subIndex \in 1..4 : ClickSubItem(room, subIndex)
  \/ FrameAnimate
  \/ FrameLocked
  \/ SettleTimerFires
  \/ DismissTimerFires

SpecCatalog == InitCamera /\ [][NextCatalog]_vars

\* C28: a click on the k-th item of the flattened catalog selects and
\* focuses (directly or as the pending target of a transition) the anchor
\* with id k, for all 16 items: Bathroom 'LED lights' gives anchor 15,
\* Living Room 'LED lights' gives anchor 2.
C28_SubItemFocusesItsAnchor ==
  [][\A k \in 1..NumSpheres :
       ClickCatalogItem(k) =>
         /\ selectedSphere' = k
         /\ focusedSphere' = k \/ pendingTarget' = k]_vars

\* the one click that both 'LED lights' entries produce: anchor 2 focused
C28_LedLightsFocusesAnchorTwo ==
  /\ inputLog = <<FocusInput(2)>>
  /\ selectedSphere = 2
  /\ focusedSphere = 2
  /\ findIndexByName(menuData.Bathroom[3]) + 1 = 2

----------------------------------------------------------------------------
\* The transition bookkeeping of the camera director

\* C29: pendingTarget is non-null and transitionPhase differs from 'none'
\* only while cameraMode = 'transitioning'; cameraMode = 'transitioning'
\* implies a non-null pendingTarget and focusedSphere = null; a focus()
\* issued during a zoom-out leaves no pendingTarget or transitionPhase
\* behind in FOCUSED mode.
C29_PendingOnlyWhileTransitioning ==
  /\ (pendingTarget # Null \/ transitionPhase # "none")
       => cameraMode = "transitioning"
  /\ cameraMode = "transitioning"
       => (pendingTarget # Null /\ focusedSphere = Null)

\* focus(5), focus(7) started the zoom-out for 7; the card of 5 was then
\* clicked during the zoom-out: the director is FOCUSED(5) with the pending
\* target 7 and the zoom_out phase still set
C29_StalePendingInFocused ==
  /\ inputLog = <<FocusInput(5), FocusInput(7), FocusInput(5)>>
  /\ cameraMode = "focused"
  /\ focusedSphere = 5
  /\ pendingTarget = 7
  /\ transitionPhase = "zoom_out"

----------------------------------------------------------------------------
\* Threshold events handled by one closure

\* the subscribed wheel handler still holds notificationShown = false although
\* an event it handled has already set the latch
LatchBehind == notificationShown /\ ~handlerNotificationShown

\* C30: a further wheel event handled by the closure that already triggered
\* the session notification triggers no second notification (no show, no
\* further 3000 ms timer) and leaves the sidebar opened once.
C30_SameClosureTriggersOnce ==
  [][(LatchBehind /\ wheelEvents' = wheelEvents + 1)
       => /\ notifTriggers' = notifTriggers
          /\ sessionTimers' = sessionTimers
          /\ sidebarOpen => sidebarOpen']_vars

\* two forward events at the threshold were handled by the closure of the
\* first render: two notifications, two pending dismiss timers
C30_TwoTriggersOneClosure ==
  /\ LatchBehind
  /\ ~handlerSidebarOpen
  /\ sidebarOpen
  /\ wheelEvents = 51
  /\ backwardEvents = 0
  /\ uiInputs = 0
  /\ notifTriggers = 2
  /\ sessionTimers = 2

====
